---------------------------- MODULE Spec2Model ----------------------------
(***************************************************************************)
(* A model of the response-orchestration core of the terminal assistant   *)
(* (src/Ai/terminal_ai_fixed.py and the stores it drives).                 *)
(*                                                                         *)
(* Texts are TLA+ strings; the Python string operations the code uses      *)
(* (lower, strip, split, `in`, startswith, slicing, concatenation) are     *)
(* operators over them, computed character by character.                   *)
(***************************************************************************)
EXTENDS Integers, Sequences, FiniteSets, TLC

(***************************************************************************)
(* Python string operations                                                *)
(***************************************************************************)
UpperAlpha == "ABCDEFGHIJKLMNOPQRSTUVWXYZ"
LowerAlpha == "abcdefghijklmnopqrstuvwxyz"

\* the lowercase letter of each uppercase letter
LowerTable ==
    "A" :> "a" @@ "B" :> "b" @@ "C" :> "c" @@ "D" :> "d" @@ "E" :> "e" @@ "F" :> "f" @@ "G" :> "g" @@
    "H" :> "h" @@ "I" :> "i" @@ "J" :> "j" @@ "K" :> "k" @@ "L" :> "l" @@ "M" :> "m" @@ "N" :> "n" @@
    "O" :> "o" @@ "P" :> "p" @@ "Q" :> "q" @@ "R" :> "r" @@ "S" :> "s" @@ "T" :> "t" @@ "U" :> "u" @@
    "V" :> "v" @@ "W" :> "w" @@ "X" :> "x" @@ "Y" :> "y" @@ "Z" :> "z"

\* one character of str.lower()
LowerChar(c) == IF c \in DOMAIN LowerTable THEN LowerTable[c] ELSE c

RECURSIVE Lower(_)
\* str.lower(), computed half by half
Lower(s) ==
    IF Len(s) = 0 THEN ""
    ELSE IF Len(s) = 1 THEN LowerChar(s)
    ELSE Lower(SubSeq(s, 1, Len(s) \div 2)) \o Lower(SubSeq(s, Len(s) \div 2 + 1, Len(s)))

\* the Python test `k in s` on strings
Contains(s, k) ==
    \E i \in 0..(Len(s) - Len(k)) : SubSeq(s, i + 1, i + Len(k)) = k

\* any(k in s for k in ks), ks a sequence of strings
ContainsAny(s, ks) == \E j \in 1..Len(ks) : Contains(s, ks[j])

\* str.startswith(k)
StartsWith(s, k) == Len(k) <= Len(s) /\ SubSeq(s, 1, Len(k)) = k

\* str.endswith(k)
EndsWith(s, k) == Len(k) <= Len(s) /\ SubSeq(s, Len(s) - Len(k) + 1, Len(s)) = k

\* the whitespace the modelled texts can hold
IsSpace(c) == c = " " \/ c = "\n"

RECURSIVE LStrip(_)
LStrip(s) == IF s # "" /\ IsSpace(SubSeq(s, 1, 1)) THEN LStrip(Tail(s)) ELSE s

RECURSIVE RStrip(_)
RStrip(s) ==
    IF s # "" /\ IsSpace(SubSeq(s, Len(s), Len(s)))
    THEN RStrip(SubSeq(s, 1, Len(s) - 1))
    ELSE s

\* str.strip()
Strip(s) == RStrip(LStrip(s))

\* s[:n]
Prefix(s, n) == IF Len(s) <= n THEN s ELSE SubSeq(s, 1, n)

\* s[-n:] on a list
LastN(seq, n) == IF Len(seq) <= n THEN seq ELSE SubSeq(seq, Len(seq) - n + 1, Len(seq))

\* the position of the first occurrence of k in s at or after 1, 0 when absent
FindFirst(s, k) ==
    IF Contains(s, k)
    THEN CHOOSE i \in 1..(Len(s) - Len(k) + 1) :
            /\ SubSeq(s, i, i + Len(k) - 1) = k
            /\ \A j \in 1..(i - 1) : SubSeq(s, j, j + Len(k) - 1) # k
    ELSE 0

\* the position of the last occurrence of k in s, 0 when absent
FindLast(s, k) ==
    IF Contains(s, k)
    THEN CHOOSE i \in 1..(Len(s) - Len(k) + 1) :
            /\ SubSeq(s, i, i + Len(k) - 1) = k
            /\ \A j \in (i + 1)..(Len(s) - Len(k) + 1) : SubSeq(s, j, j + Len(k) - 1) # k
    ELSE 0

RECURSIVE SplitWords(_)
\* str.split(): the whitespace-separated words
SplitWords(s) ==
    LET t == LStrip(s)
    IN  IF t = "" THEN <<>>
        ELSE LET e == IF \E i \in 1..Len(t) : IsSpace(SubSeq(t, i, i))
                      THEN (CHOOSE i \in 1..Len(t) :
                                /\ IsSpace(SubSeq(t, i, i))
                                /\ \A j \in 1..(i - 1) : ~IsSpace(SubSeq(t, j, j))) - 1
                      ELSE Len(t)
             IN  <<SubSeq(t, 1, e)>> \o SplitWords(SubSeq(t, e + 1, Len(t)))

RECURSIVE JoinWords(_)
\* " ".join(words)
JoinWords(ws) ==
    IF ws = <<>> THEN ""
    ELSE IF Len(ws) = 1 THEN ws[1]
    ELSE ws[1] \o " " \o JoinWords(Tail(ws))

(***************************************************************************)
(* needs_search: the search-need classifier                                *)
(***************************************************************************)
immediate_skip ==
    << "hello", "hi", "hey", "thanks", "thank you", "bye", "goodbye",
       "how are you", "what can you do", "who are you", "good morning",
       "good evening", "nice", "great", "okay", "yes", "no", "sure",
       "alright", "fine", "cool", "awesome", "perfect" >>

command_patterns ==
    << "personality", "memory stats", "voice test", "breaking news",
       "news", "search live", "ask me a question", "quiz me" >>

priority_triggers ==
    << "current", "latest", "recent", "today", "now", "2024", "2025",
       "breaking", "live", "real-time", "up-to-date" >>

info_requests ==
    << "price of", "cost of", "statistics", "population", "rate",
       "weather in", "temperature", "forecast", "news about",
       "best colleges", "best hospitals", "best restaurants",
       "deaths in", "mortality", "crime rate", "happened in" >>

location_indicators == << "near me", "in my area", "pincode", "pin code" >>

basic_knowledge ==
    << "what is love", "what is life", "what is happiness",
       "what is water", "what is fire", "what is human",
       "bones in human", "human bones" >>

interrogatives == << "what", "how", "when", "where", "why", "who" >>

\* the priority triggers tested before the immediate-skip phrases
needs_search_priority_first(query) ==
    LET query_lower == Strip(Lower(query))
    IN  IF ContainsAny(query_lower, priority_triggers) THEN TRUE
        ELSE IF ContainsAny(query_lower, immediate_skip) THEN FALSE
        ELSE IF ContainsAny(query_lower, command_patterns) THEN FALSE
        ELSE IF ContainsAny(query_lower, info_requests) THEN TRUE
        ELSE IF ContainsAny(query_lower, location_indicators) THEN TRUE
        ELSE IF ContainsAny(query_lower, basic_knowledge) THEN FALSE
        ELSE \/ Contains(query, "?")
             \/ \E j \in 1..Len(interrogatives) : StartsWith(query_lower, interrogatives[j])

\* the basic-knowledge allowlist tested right after the immediate-skip phrases
needs_search_basic_early(query) ==
    LET query_lower == Strip(Lower(query))
    IN  IF ContainsAny(query_lower, immediate_skip) THEN FALSE
        ELSE IF ContainsAny(query_lower, basic_knowledge) THEN FALSE
        ELSE IF ContainsAny(query_lower, command_patterns) THEN FALSE
        ELSE IF ContainsAny(query_lower, priority_triggers) THEN TRUE
        ELSE IF ContainsAny(query_lower, info_requests) THEN TRUE
        ELSE IF ContainsAny(query_lower, location_indicators) THEN TRUE
        ELSE \/ Contains(query, "?")
             \/ \E j \in 1..Len(interrogatives) : StartsWith(query_lower, interrogatives[j])

\* the command keywords tested after the priority triggers
needs_search_command_late(query) ==
    LET query_lower == Strip(Lower(query))
    IN  IF ContainsAny(query_lower, immediate_skip) THEN FALSE
        ELSE IF ContainsAny(query_lower, priority_triggers) THEN TRUE
        ELSE IF ContainsAny(query_lower, command_patterns) THEN FALSE
        ELSE IF ContainsAny(query_lower, info_requests) THEN TRUE
        ELSE IF ContainsAny(query_lower, location_indicators) THEN TRUE
        ELSE IF ContainsAny(query_lower, basic_knowledge) THEN FALSE
        ELSE \/ Contains(query, "?")
             \/ \E j \in 1..Len(interrogatives) : StartsWith(query_lower, interrogatives[j])

needs_search(query) ==
    LET query_lower == Strip(Lower(query))
    IN  IF ContainsAny(query_lower, immediate_skip) THEN FALSE
        ELSE IF ContainsAny(query_lower, command_patterns) THEN FALSE
        ELSE IF ContainsAny(query_lower, priority_triggers) THEN TRUE
        ELSE IF ContainsAny(query_lower, info_requests) THEN TRUE
        ELSE IF ContainsAny(query_lower, location_indicators) THEN TRUE
        ELSE IF ContainsAny(query_lower, basic_knowledge) THEN FALSE
        ELSE \/ Contains(query, "?")
             \/ \E j \in 1..Len(interrogatives) : StartsWith(query_lower, interrogatives[j])

(***************************************************************************)
(* State                                                                   *)
(***************************************************************************)
VARIABLES
    now,             \* wall clock, in seconds since the assistant was constructed
    cls_query,       \* the query handed to needs_search
    cls_parts,       \* how many fragments cls_query was built from
    cls_result,      \* what needs_search returned for cls_query
    session_memory,  \* ContextMemory.session_memory: the recent turns, oldest first
    session_log,     \* history: every turn ever appended to the session, in order
    long_term_memory,\* ContextMemory.long_term_memory: conversations, user_info, topics
    memory_file,     \* the long-term document on disk (context_memory.json)
    ltm_raised,      \* history: whether the last add_to_long_term_memory call raised
    response_cache,  \* TerminalAI.response_cache: key, text and (history) time stored, oldest first
    search_cache,    \* TerminalAI.search_cache, kept the same way
    last_cache_clear,\* TerminalAI.last_cache_clear
    performance_stats,\* TerminalAI.performance_stats
    current_personality, \* PersonalitySystem.current_personality
    components_ok,   \* whether _initialize_ai_components completed
    last_call,       \* history: the last get_ai_response or search_web call and its outcome
    prev_call,       \* history: the driver call made before last_call
    calls,           \* history: how many driver calls were made
    pc,              \* where the turn in progress stands: idle, search, backend or enhance
    turn,            \* the locals of the smart_response call in progress
    returned,          \* history: what the last finished smart_response call returned
    conversation_context, \* TerminalAI.conversation_context
    conversation_memory,  \* TerminalAI.conversation_memory
    knowledge,       \* TerminalAI.knowledge
    knowledge_file,  \* the knowledge base on disk (ai_knowledge.json)
    learning_system,        \* LearningSystem: learned_knowledge, preferences, patterns
    learning_files,  \* the three LearningSystem documents on disk
    common_sense_memory,       \* CommonSense.context_memory: the responses it remembers
    pending,         \* the background tasks submitted to the executor and not yet run
    running          \* the background tasks a worker has begun and not yet finished

cls_vars  == <<cls_query, cls_parts, cls_result>>
sess_vars == <<session_memory, session_log>>
ltm_vars  == <<long_term_memory, memory_file, ltm_raised>>

cache_vars == <<response_cache, search_cache, last_cache_clear, performance_stats, last_call,
                prev_call>>
pers_vars == <<current_personality, components_ok>>
turn_vars == <<pc, turn, returned, conversation_context, conversation_memory, knowledge,
               knowledge_file, learning_system, learning_files, common_sense_memory, pending,
               running>>

vars == <<now, cls_query, cls_parts, cls_result, session_memory, session_log,
          long_term_memory, memory_file, ltm_raised,
          response_cache, search_cache, last_cache_clear, performance_stats,
          current_personality, components_ok, last_call, prev_call, calls,
          pc, turn, returned, conversation_context, conversation_memory, knowledge,
          knowledge_file, learning_system, learning_files, common_sense_memory, pending,
          running>>

(***************************************************************************)
(* ContextMemory: the session buffer                                       *)
(***************************************************************************)
SessionCap == 20

\* get_current_session_id: the hour the turn falls in
get_current_session_id(t) == t \div 3600

\* the buffer cut to its first entries instead of its last
add_to_session_memory_keep_oldest(sm, user_input, ai_response, t) ==
    LET memory_item == [user_input |-> user_input, ai_response |-> ai_response,
                        timestamp |-> t, session_id |-> get_current_session_id(t)]
        appended == Append(sm, memory_item)
    IN  IF Len(appended) > SessionCap THEN SubSeq(appended, 1, SessionCap) ELSE appended

\* the session buffer after add_to_session_memory(user_input, ai_response) at time t
add_to_session_memory(sm, user_input, ai_response, t) ==
    LET memory_item == [user_input |-> user_input, ai_response |-> ai_response,
                        timestamp |-> t, session_id |-> get_current_session_id(t)]
        appended == Append(sm, memory_item)
    IN  IF Len(appended) > SessionCap THEN LastN(appended, SessionCap) ELSE appended

\* the turn as the history variable session_log keeps it
LoggedTurn(user_input, ai_response) == [user_input |-> user_input, ai_response |-> ai_response]

\* the turns of a buffer without their time stamps
TurnsOf(sm) == [i \in 1..Len(sm) |-> LoggedTurn(sm[i].user_input, sm[i].ai_response)]

(***************************************************************************)
(* ContextMemory: the long-term store                                      *)
(***************************************************************************)
LongTermCap == 100

\* a Python dict as a function; d[k] = v
DictSet(d, k, v) == [x \in DOMAIN d \cup {k} |-> IF x = k THEN v ELSE d[x]]

EmptyDict == [x \in {} |-> 0]

\* the structure load_memory falls back to
DefaultLongTerm ==
    [conversations |-> <<>>, user_info |-> EmptyDict, topics |-> EmptyDict,
     relationships |-> EmptyDict]

\* text.split(sep)[-1]: what follows the last occurrence of sep
AfterLast(text, sep) ==
    IF Contains(text, sep)
    THEN SubSeq(text, FindLast(text, sep) + Len(sep), Len(text))
    ELSE text

Digits == "0123456789"

IsDigitChar(c) == \E i \in 1..Len(Digits) : SubSeq(Digits, i, i) = c

\* str.isdigit()
IsDigit(w) == w # "" /\ \A i \in 1..Len(w) : IsDigitChar(SubSeq(w, i, i))

DigitValue(c) == (CHOOSE i \in 1..Len(Digits) : SubSeq(Digits, i, i) = c) - 1

RECURSIVE ParseInt(_)
\* int(w) for a word of digits
ParseInt(w) ==
    IF Len(w) = 1 THEN DigitValue(w)
    ELSE ParseInt(SubSeq(w, 1, Len(w) - 1)) * 10 + DigitValue(SubSeq(w, Len(w), Len(w)))

personal_phrases  == << "my name", "i am", "i live", "my age", "my job" >>
emotional_words   == << "love", "hate", "sad", "happy", "angry", "excited" >>
help_words        == << "help", "please", "can you", "need" >>

\* calculate_importance without the personal-information term
calculate_importance_impersonal(user_input) ==
    LET text == Lower(user_input)
    IN    (IF Contains(text, "?") THEN 2 ELSE 0)
        + (IF ContainsAny(text, emotional_words) THEN 3 ELSE 0)
        + (IF ContainsAny(text, help_words) THEN 2 ELSE 0)
        + (IF Len(SplitWords(text)) > 10 THEN 1 ELSE 0)

calculate_importance(user_input) ==
    LET text == Lower(user_input)
    IN    (IF ContainsAny(text, personal_phrases) THEN 5 ELSE 0)
        + (IF Contains(text, "?") THEN 2 ELSE 0)
        + (IF ContainsAny(text, emotional_words) THEN 3 ELSE 0)
        + (IF ContainsAny(text, help_words) THEN 2 ELSE 0)
        + (IF Len(SplitWords(text)) > 10 THEN 1 ELSE 0)

\* whether extract_user_info raises: nothing follows the last "my name is"
extract_user_info_raises(user_input) ==
    LET text == Lower(user_input)
    IN  /\ Contains(text, "my name is")
        /\ SplitWords(AfterLast(text, "my name is")) = <<>>

\* user_info after extract_user_info(user_input), when it does not raise
extract_user_info(user_info, user_input) ==
    LET text == Lower(user_input)
        i1 == IF Contains(text, "my name is")
              THEN DictSet(user_info, "name", SplitWords(AfterLast(text, "my name is"))[1])
              ELSE user_info
        i2 == IF Contains(text, "i live in") \/ Contains(text, "i am from")
              THEN DictSet(i1, "location",
                           Strip(AfterLast(text, IF Contains(text, "in") THEN "in" ELSE "from")))
              ELSE i1
        nums == SelectSeq(SplitWords(text), IsDigit)
        i3 == IF Contains(text, "i am") /\ Contains(text, "years old") /\ nums # <<>>
              THEN DictSet(i2, "age", ParseInt(nums[1]))
              ELSE i2
        old == IF "interests" \in DOMAIN i3 THEN i3["interests"] ELSE <<>>
        i4 == IF Contains(text, "i like") \/ Contains(text, "i love")
              THEN DictSet(i3, "interests",
                           Append(old, Strip(AfterLast(text,
                                      IF Contains(text, "like") THEN "like" ELSE "love"))))
              ELSE i3
    IN  i4

topic_keywords ==
    << [topic |-> "technology",    keywords |-> <<"computer", "software", "ai", "robot", "internet", "phone">>],
       [topic |-> "science",       keywords |-> <<"physics", "chemistry", "biology", "space", "research">>],
       [topic |-> "entertainment", keywords |-> <<"movie", "music", "game", "book", "tv", "show">>],
       [topic |-> "food",          keywords |-> <<"eat", "food", "cook", "recipe", "restaurant", "meal">>],
       [topic |-> "travel",        keywords |-> <<"travel", "trip", "vacation", "country", "city", "visit">>],
       [topic |-> "work",          keywords |-> <<"job", "work", "career", "office", "business", "company">>],
       [topic |-> "health",        keywords |-> <<"health", "exercise", "doctor", "medicine", "fitness">>],
       [topic |-> "education",     keywords |-> <<"school", "study", "learn", "university", "course">>] >>

\* topics after extract_topics(user_input)
extract_topics(topics, user_input) ==
    LET text == Lower(user_input)
        hit  == { topic_keywords[i].topic : i \in { j \in 1..Len(topic_keywords) :
                                                     ContainsAny(text, topic_keywords[j].keywords) } }
    IN  [x \in DOMAIN topics \cup hit |->
            (IF x \in DOMAIN topics THEN topics[x] ELSE 0) + (IF x \in hit THEN 1 ELSE 0)]

RECURSIVE SortedLatestFirst(_)
\* a sort by importance, highest first, that puts the later of two entries
\* of equal importance first (an ascending sort read backwards)
SortedLatestFirst(convs) ==
    IF convs = <<>> THEN <<>>
    ELSE LET top == CHOOSE m \in { convs[i].importance : i \in 1..Len(convs) } :
                        \A i \in 1..Len(convs) : convs[i].importance <= m
             tops == SelectSeq(convs, LAMBDA c : c.importance = top)
         IN  [i \in 1..Len(tops) |-> tops[Len(tops) + 1 - i]]
                \o SortedLatestFirst(SelectSeq(convs, LAMBDA c : c.importance # top))

RECURSIVE SortedByImportance(_)
\* sorted(conversations, key=importance, reverse=True): stable, highest first
SortedByImportance(convs) ==
    IF convs = <<>> THEN <<>>
    ELSE LET top == CHOOSE m \in { convs[i].importance : i \in 1..Len(convs) } :
                        \A i \in 1..Len(convs) : convs[i].importance <= m
         IN  SelectSeq(convs, LAMBDA c : c.importance = top)
                \o SortedByImportance(SelectSeq(convs, LAMBDA c : c.importance # top))

\* add_to_long_term_memory up to its save_memory call: the store it leaves and
\* whether it raised (on IndexError the turn is appended and nothing else is done)
add_to_long_term_memory(ltm, user_input, ai_response, t) ==
    LET memory_item == [user_input |-> user_input, ai_response |-> ai_response,
                        timestamp |-> t, importance |-> calculate_importance(user_input)]
        appended == Append(ltm.conversations, memory_item)
    IN  IF extract_user_info_raises(user_input)
        THEN [ltm |-> [ltm EXCEPT !.conversations = appended], raised |-> TRUE]
        ELSE [ltm |-> [ltm EXCEPT
                        !.conversations =
                            IF Len(appended) > LongTermCap
                            THEN SubSeq(SortedByImportance(appended), 1, LongTermCap)
                            ELSE appended,
                        !.user_info = extract_user_info(ltm.user_info, user_input),
                        !.topics = extract_topics(ltm.topics, user_input)],
              raised |-> FALSE]

RECURSIVE JoinWith(_, _)
\* sep.join(parts)
JoinWith(parts, sep) ==
    IF parts = <<>> THEN ""
    ELSE IF Len(parts) = 1 THEN parts[1]
    ELSE parts[1] \o sep \o JoinWith(Tail(parts), sep)

(***************************************************************************)
(* json.dump and json.load on the long-term document: the text written to  *)
(* context_memory.json and the structure read back from it                 *)
(***************************************************************************)
\* the character of s at position i
CharAt(s, i) == SubSeq(s, i, i)

RECURSIVE JsonEscapeFrom(_, _)
\* the JSON escapes of the characters of s from position i on
JsonEscapeFrom(s, i) ==
    IF i > Len(s) THEN ""
    ELSE LET c == CharAt(s, i)
             e == CASE c = "\"" -> "\\\""
                    [] c = "\\" -> "\\\\"
                    [] c = "\n" -> "\\n"
                    [] c = "\t" -> "\\t"
                    [] OTHER    -> c
         IN  e \o JsonEscapeFrom(s, i + 1)

\* json.dumps of a str
JsonString(s) == "\"" \o JsonEscapeFrom(s, 1) \o "\""

\* json.dumps of a non-negative int
JsonNumber(n) == ToString(n)

\* json.dumps of a list whose items are already dumped
JsonArray(items) == "[" \o JoinWith(items, ", ") \o "]"

\* json.dumps of a dict whose values are already dumped, keys in the given order
JsonObject(members) ==
    "{" \o JoinWith([i \in 1..Len(members) |->
                        JsonString(members[i].key) \o ": " \o members[i].text], ", ") \o "}"

\* the members of dict d for the keys of `order` it holds, dumped by dump(k, v)
DumpedMembers(d, order, dump(_, _)) ==
    LET held == SelectSeq(order, LAMBDA k : k \in DOMAIN d)
    IN  [i \in 1..Len(held) |-> [key |-> held[i], text |-> dump(held[i], d[held[i]])]]

DumpConversation(c) ==
    JsonObject(<< [key |-> "user_input",  text |-> JsonString(c.user_input)],
                  [key |-> "ai_response", text |-> JsonString(c.ai_response)],
                  [key |-> "timestamp",   text |-> JsonNumber(c.timestamp)],
                  [key |-> "importance",  text |-> JsonNumber(c.importance)] >>)

DumpUserInfoValue(k, v) ==
    CASE k = "age"       -> JsonNumber(v)
      [] k = "interests" -> JsonArray([i \in 1..Len(v) |-> JsonString(v[i])])
      [] OTHER           -> JsonString(v)

DumpTopicCount(k, v) == JsonNumber(v)

\* json.dump(self.long_term_memory, f): the text written
json_dump(ltm) ==
    JsonObject(<<
        [key |-> "conversations",
         text |-> JsonArray([i \in 1..Len(ltm.conversations) |->
                                DumpConversation(ltm.conversations[i])])],
        [key |-> "user_info",
         text |-> JsonObject(DumpedMembers(ltm.user_info,
                                           <<"name", "location", "age", "interests">>,
                                           DumpUserInfoValue))],
        [key |-> "topics",
         text |-> JsonObject(DumpedMembers(ltm.topics,
                                           [i \in 1..Len(topic_keywords) |-> topic_keywords[i].topic],
                                           DumpTopicCount))],
        [key |-> "relationships", text |-> JsonObject(<<>>)] >>)

RECURSIVE SkipSpace(_, _)
\* the first position from i on that holds no JSON whitespace
SkipSpace(s, i) ==
    IF i <= Len(s) /\ CharAt(s, i) \in {" ", "\n", "\t"} THEN SkipSpace(s, i + 1) ELSE i

RECURSIVE ParseStringFrom(_, _, _)
\* the str whose characters start at i (after the opening quote), and the
\* position after its closing quote
ParseStringFrom(s, i, acc) ==
    LET c == CharAt(s, i)
    IN  IF c = "\"" THEN [value |-> acc, next |-> i + 1]
        ELSE IF c = "\\"
        THEN LET d == CharAt(s, i + 1)
                 u == CASE d = "n" -> "\n"
                        [] d = "t" -> "\t"
                        [] OTHER   -> d
             IN  ParseStringFrom(s, i + 2, acc \o u)
        ELSE ParseStringFrom(s, i + 1, acc \o c)

RECURSIVE ParseDigitsFrom(_, _, _)
\* the int whose digits start at i, and the position after them
ParseDigitsFrom(s, i, acc) ==
    IF i <= Len(s) /\ IsDigitChar(CharAt(s, i))
    THEN ParseDigitsFrom(s, i + 1, acc * 10 + DigitValue(CharAt(s, i)))
    ELSE [value |-> acc, next |-> i]

RECURSIVE ParseValue(_, _)
RECURSIVE ParseElements(_, _, _)
RECURSIVE ParseMembers(_, _, _)

\* the value whose text starts at i: a dict, a list, a str or an int
ParseValue(s, i) ==
    LET j == SkipSpace(s, i)
        c == CharAt(s, j)
    IN  CASE c = "{"  -> ParseMembers(s, SkipSpace(s, j + 1), EmptyDict)
          [] c = "["  -> ParseElements(s, SkipSpace(s, j + 1), <<>>)
          [] c = "\"" -> ParseStringFrom(s, j + 1, "")
          [] OTHER    -> ParseDigitsFrom(s, j, 0)

\* the rest of a list from i on, after the items of acc
ParseElements(s, i, acc) ==
    IF CharAt(s, i) = "]" THEN [value |-> acc, next |-> i + 1]
    ELSE LET item == ParseValue(s, i)
             j    == SkipSpace(s, item.next)
         IN  IF CharAt(s, j) = ","
             THEN ParseElements(s, SkipSpace(s, j + 1), Append(acc, item.value))
             ELSE ParseElements(s, j, Append(acc, item.value))

\* the rest of a dict from i on, after the members of acc; a repeated key
\* keeps its last value
ParseMembers(s, i, acc) ==
    IF CharAt(s, i) = "}" THEN [value |-> acc, next |-> i + 1]
    ELSE LET key   == ParseStringFrom(s, i + 1, "")
             colon == SkipSpace(s, key.next)
             item  == ParseValue(s, colon + 1)
             j     == SkipSpace(s, item.next)
             more  == DictSet(acc, key.value, item.value)
         IN  IF CharAt(s, j) = ","
             THEN ParseMembers(s, SkipSpace(s, j + 1), more)
             ELSE ParseMembers(s, j, more)

\* json.load(f): the structure the text stands for
json_load(text) == ParseValue(text, 1).value

\* the document on disk after save_memory: written whole, left alone when the
\* file cannot be opened, cut short when the write fails half way.  `doc` is
\* the structure whose JSON text the file holds.
save_memory(file, ltm, outcome) ==
    CASE outcome = "ok"           -> [state |-> "ok", doc |-> ltm]
      [] outcome = "open_failed"  -> file
      [] outcome = "write_failed" -> [state |-> "corrupt", doc |-> DefaultLongTerm]

\* load_memory that reads back the conversations and nothing else
load_memory_conversations_only(file) ==
    IF file.state = "ok"
    THEN [DefaultLongTerm EXCEPT !.conversations = json_load(json_dump(file.doc)).conversations]
    ELSE DefaultLongTerm

\* load_memory: what json.load makes of the text in the file, or the default
\* structure when the file is missing or its text is cut short
load_memory(file) ==
    IF file.state = "ok" THEN json_load(json_dump(file.doc)) ELSE DefaultLongTerm

SaveOutcomes == { "ok", "open_failed", "write_failed" }

(***************************************************************************)
(* PersonalitySystem: the table of styles                                  *)
(***************************************************************************)
Personalities == { "friendly", "professional", "funny", "wise", "energetic" }

response_style(p) ==
    CASE p = "friendly"     -> "warm and welcoming"
      [] p = "professional" -> "formal and efficient"
      [] p = "funny"        -> "humorous and playful"
      [] p = "wise"         -> "thoughtful and philosophical"
      [] p = "energetic"    -> "enthusiastic and motivating"

\* set_personality that takes whatever name it is given
set_personality_unchecked(current, personality_name) ==
    [current |-> Lower(personality_name), returned |-> TRUE]

\* set_personality(personality_name): the active personality it leaves and
\* the value it returns
set_personality(current, personality_name) ==
    IF Lower(personality_name) \in Personalities
    THEN [current |-> Lower(personality_name), returned |-> TRUE]
    ELSE [current |-> current, returned |-> FALSE]

(***************************************************************************)
(* TerminalAI: caches, statistics, backend and search calls                *)
(***************************************************************************)
cache_ttl == 3600
max_cache_size == 1000
KeyLimit == 100
ContextLimit == 1000
QueryWordLimit == 10

\* `key in cache`
InCache(cache, key) == \E i \in 1..Len(cache) : cache[i].key = key

\* cache[key]
CacheGet(cache, key) == cache[CHOOSE i \in 1..Len(cache) : cache[i].key = key]

\* cache[key] = text at time t: a new key goes last, a known key keeps its place
CachePut(cache, key, text, t) ==
    IF InCache(cache, key)
    THEN [i \in 1..Len(cache) |->
            IF cache[i].key = key THEN [key |-> key, text |-> text, at |-> t] ELSE cache[i]]
    ELSE Append(cache, [key |-> key, text |-> text, at |-> t])

\* _clear_old_cache at time t: both caches and the clear time it leaves
_clear_old_cache(rc, sc, last_clear, t) ==
    LET expired == (t - last_clear) > cache_ttl
        rc1 == IF expired THEN <<>> ELSE rc
        sc1 == IF expired THEN <<>> ELSE sc
        rc2 == IF Len(rc1) > max_cache_size
               THEN LastN(rc1, max_cache_size \div 2)
               ELSE rc1
    IN  [response_cache |-> rc2, search_cache |-> sc1,
         last_cache_clear |-> IF expired THEN t ELSE last_clear]

RECURSIVE GCD(_, _)
GCD(a, b) == IF b = 0 THEN a ELSE GCD(b, a % b)

\* the fraction n/d in lowest terms
Fraction(n, d) == LET g == GCD(n, d) IN [num |-> n \div g, den |-> d \div g]

\* performance_stats after _update_response_time(response_time)
_update_response_time(stats, response_time) ==
    LET current_avg   == stats.average_response_time
        total_queries == stats.total_queries
    IN  [stats EXCEPT !.average_response_time =
            IF total_queries = 0
            THEN Fraction(response_time, 1)
            ELSE Fraction(current_avg.num * total_queries + response_time * current_avg.den,
                          current_avg.den * (total_queries + 1))]

\* the lowercased "prompt:context", never cut
_generate_cache_key_uncut(prompt, context) == Lower(prompt \o ":" \o context)

_generate_cache_key(prompt, context) == Prefix(Lower(prompt \o ":" \o context), KeyLimit)

_get_system_prompt(personality) ==
    "You are a helpful AI assistant. Respond naturally and conversationally. "
    \o "For greetings, respond with simple greetings. For questions, provide clear and accurate answers. "
    \o "Your personality is " \o personality \o " - " \o response_style(personality) \o ". "

_prepare_full_prompt(prompt, context) ==
    IF context # "" /\ Strip(context) # ""
    THEN LET ctx == IF Len(context) > ContextLimit
                    THEN Prefix(context, ContextLimit) \o "..."
                    ELSE context
         IN  "Based on this information: " \o ctx \o "\n\n"
             \o "Question: " \o prompt \o "\n\n"
             \o "Provide a helpful response in 2-3 sentences."
    ELSE prompt

fallback_responses ==
    << [key |-> "hello",       response |-> "Hello! How can I help you today?"],
       [key |-> "hi",          response |-> "Hi there! What can I do for you?"],
       [key |-> "how are you", response |-> "I'm doing well, thank you! How are you?"],
       [key |-> "thanks",      response |-> "You're welcome! Happy to help!"],
       [key |-> "bye",         response |-> "Goodbye! Have a great day!"] >>

generic_fallback ==
    "I'm having trouble processing that right now. Could you please try again or rephrase your question?"

\* the table walked from its last entry
_get_fallback_response_last_match(prompt) ==
    LET prompt_lower == Strip(Lower(prompt))
        hit == { i \in 1..Len(fallback_responses) : Contains(prompt_lower, fallback_responses[i].key) }
    IN  IF hit # {}
        THEN fallback_responses[CHOOSE i \in hit : \A j \in hit : i >= j].response
        ELSE generic_fallback

_get_fallback_response(prompt) ==
    LET prompt_lower == Strip(Lower(prompt))
        hit == { i \in 1..Len(fallback_responses) : Contains(prompt_lower, fallback_responses[i].key) }
    IN  IF hit # {}
        THEN fallback_responses[CHOOSE i \in hit : \A j \in hit : i <= j].response
        ELSE generic_fallback

\* _call_ollama_with_timeout: the stripped content, or None when the call raises
\* or times out.  None is [none |-> TRUE].
None == [none |-> TRUE, text |-> ""]
Some(text) == [none |-> FALSE, text |-> text]

_call_ollama_with_timeout(outcome) ==
    IF outcome.raises THEN None ELSE Some(Strip(outcome.content))

\* get_ai_response returning whatever the backend handed back, blank or not
get_ai_response_unchecked(rc, stats, personality, comps_ok, prompt, context, outcome, secs, t) ==
    LET stats1    == [stats EXCEPT !.total_queries = @ + 1]
        cache_key == _generate_cache_key(prompt, context)
        response  == _call_ollama_with_timeout(outcome)
    IN  [text |-> IF InCache(rc, cache_key) THEN CacheGet(rc, cache_key).text ELSE response.text,
         response_cache |-> rc, performance_stats |-> stats1,
         hit |-> InCache(rc, cache_key), key |-> cache_key, entry_at |-> t,
         backend |-> Some(_prepare_full_prompt(prompt, context)),
         system |-> _get_system_prompt(personality), answered |-> ~response.none]

\* get_ai_response that calls the backend whether or not the key is cached
get_ai_response_ignores_cache(rc, stats, personality, comps_ok, prompt, context, outcome, secs, t) ==
    LET stats1    == [stats EXCEPT !.total_queries = @ + 1]
        cache_key == _generate_cache_key(prompt, context)
        response  == _call_ollama_with_timeout(outcome)
        answered  == ~response.none /\ response.text # ""
    IN  [text |-> IF answered THEN response.text ELSE _get_fallback_response(prompt),
         response_cache |-> IF answered THEN CachePut(rc, cache_key, response.text, t + secs) ELSE rc,
         performance_stats |-> stats1,
         hit |-> InCache(rc, cache_key), key |-> cache_key, entry_at |-> t,
         backend |-> Some(_prepare_full_prompt(prompt, context)),
         system |-> _get_system_prompt(personality), answered |-> answered]

\* get_ai_response that stores the fallback under the key when the backend
\* call fails
get_ai_response_caches_fallback(rc, stats, personality, comps_ok, prompt, context, outcome, secs, t) ==
    LET stats1    == [stats EXCEPT !.total_queries = @ + 1]
        cache_key == _generate_cache_key(prompt, context)
        response  == _call_ollama_with_timeout(outcome)
        answered  == ~response.none /\ response.text # ""
        text      == IF answered THEN response.text ELSE _get_fallback_response(prompt)
    IN  IF InCache(rc, cache_key)
        THEN [text |-> CacheGet(rc, cache_key).text, response_cache |-> rc,
              performance_stats |-> [stats1 EXCEPT !.cache_hits = @ + 1],
              hit |-> TRUE, key |-> cache_key, entry_at |-> CacheGet(rc, cache_key).at,
              backend |-> None, system |-> "", answered |-> FALSE]
        ELSE [text |-> text, response_cache |-> CachePut(rc, cache_key, text, t + secs),
              performance_stats |-> IF answered THEN _update_response_time(stats1, secs)
                                    ELSE stats1,
              hit |-> FALSE, key |-> cache_key, entry_at |-> t,
              backend |-> Some(_prepare_full_prompt(prompt, context)),
              system |-> _get_system_prompt(personality), answered |-> answered]

\* get_ai_response(prompt, context): the text returned, the cache and statistics
\* left, and (history) whether the cache was hit and what was sent to the backend.
\* `outcome` is what the backend does if called, `secs` how long the call takes.
get_ai_response(rc, stats, personality, comps_ok, prompt, context, outcome, secs, t) ==
    LET stats1    == [stats EXCEPT !.total_queries = @ + 1]
        cache_key == _generate_cache_key(prompt, context)
        miss      == [text |-> "", response_cache |-> rc, performance_stats |-> stats1,
                      hit |-> FALSE, key |-> cache_key, entry_at |-> t,
                      backend |-> None, system |-> "", answered |-> FALSE]
    IN  IF InCache(rc, cache_key)
        THEN [miss EXCEPT !.text = CacheGet(rc, cache_key).text,
                          !.performance_stats = [stats1 EXCEPT !.cache_hits = @ + 1],
                          !.hit = TRUE,
                          !.entry_at = CacheGet(rc, cache_key).at]
        ELSE IF ~comps_ok
        THEN \* self.personality_system is missing: AttributeError, caught
             [miss EXCEPT !.text = _get_fallback_response(prompt)]
        ELSE LET full_prompt == _prepare_full_prompt(prompt, context)
                 response    == _call_ollama_with_timeout(outcome)
                 sent        == [miss EXCEPT !.backend = Some(full_prompt),
                                             !.system = _get_system_prompt(personality)]
             IN  IF ~response.none /\ response.text # ""
                 THEN [sent EXCEPT
                         !.text = response.text,
                         !.response_cache = CachePut(rc, cache_key, response.text, t + secs),
                         !.performance_stats = _update_response_time(stats1, secs),
                         !.answered = TRUE]
                 ELSE [sent EXCEPT !.text = _get_fallback_response(prompt)]

\* text.split(sep)[0]: what precedes the first occurrence of sep
BeforeFirst(text, sep) ==
    IF Contains(text, sep) THEN SubSeq(text, 1, FindFirst(text, sep) - 1) ELSE text

_clean_search_query(query) ==
    LET q1 == IF Contains(query, "Current question:")
              THEN Strip(AfterLast(query, "Current question:"))
              ELSE query
        q2 == IF Contains(q1, "Conversation context:")
              THEN Strip(BeforeFirst(q1, "Conversation context:"))
              ELSE q1
        words == SplitWords(q2)
        q3 == IF Len(words) > QueryWordLimit
              THEN JoinWords(SubSeq(words, 1, QueryWordLimit))
              ELSE q2
    IN  Strip(q3)

\* LiveWebSearch.format_search_results at time t
format_search_results(results, query, t) ==
    IF results = <<>>
    THEN "I couldn't find current web results for '" \o query
         \o "', but I can provide general information."
    ELSE LET RECURSIVE Lines(_)
             Lines(i) == IF i > Len(results) THEN ""
                         ELSE ToString(i) \o ". " \o results[i].title \o "\n"
                              \o "   " \o results[i].snippet \o "\n\n" \o Lines(i + 1)
         IN  "Here's what I found about '" \o query \o "':\n\n" \o Lines(1)
             \o "This information was found from live web search on minute "
             \o ToString(t \div 60) \o "."

\* what the search client hands back for clean_query: LiveWebSearch.search_web
\* with the pages it found, its own failure text, or a scripted client that
\* raises, returns nothing or returns an error-marked text
web_search_search_web(outcome, clean_query, t) ==
    CASE outcome.kind = "found"      -> Some(format_search_results(outcome.results, clean_query, t))
      [] outcome.kind = "no_results" -> Some(format_search_results(<<>>, clean_query, t))
      [] outcome.kind = "failed"     ->
            Some("I couldn't search the web right now, but I can help with general information about "
                 \o clean_query \o ".")
      [] outcome.kind = "empty"      -> Some("")
      [] outcome.kind = "error_text" -> Some("Search error: the service is unavailable")
      [] outcome.kind = "raises"     -> None

\* search_web(query): the text returned, the cache and statistics left, and
\* (history) whether the cache was hit and what the client handed back
search_web(sc, stats, comps_ok, query, outcome, secs, t) ==
    LET clean_query == _clean_search_query(query)
        cache_key   == Prefix(Lower(clean_query), KeyLimit)
        base        == [text |-> "", search_cache |-> sc, performance_stats |-> stats,
                        hit |-> FALSE, key |-> cache_key, entry_at |-> t,
                        client |-> None, asked |-> FALSE]
        sorry       == "I couldn't search for '" \o clean_query
                       \o "' right now, but I can provide general information."
    IN  IF InCache(sc, cache_key)
        THEN [base EXCEPT !.text = CacheGet(sc, cache_key).text,
                          !.performance_stats = [stats EXCEPT !.cache_hits = @ + 1],
                          !.hit = TRUE,
                          !.entry_at = CacheGet(sc, cache_key).at]
        ELSE LET stats1 == [stats EXCEPT !.search_requests = @ + 1]
                 result == web_search_search_web(outcome, clean_query, t + secs)
             IN  IF ~comps_ok \/ result.none
                 THEN \* self.web_search is missing or the client raised: caught
                      [base EXCEPT !.text = sorry, !.performance_stats = stats1,
                                   !.asked = comps_ok]
                 ELSE [base EXCEPT
                         !.text = result.text,
                         !.search_cache =
                             IF result.text # "" /\ ~Contains(Lower(result.text), "error")
                             THEN CachePut(sc, cache_key, result.text, t + secs)
                             ELSE sc,
                         !.performance_stats = _update_response_time(stats1, secs),
                         !.client = result,
                         !.asked = TRUE]

(***************************************************************************)
(* The turn: location enhancement, prompts and memory context              *)
(***************************************************************************)
RECURSIVE Replace(_, _, _)
\* str.replace(old, new): every occurrence, left to right
Replace(s, old, new) ==
    IF old = "" \/ ~Contains(s, old) THEN s
    ELSE LET i == FindFirst(s, old)
         IN  SubSeq(s, 1, i - 1) \o new \o Replace(SubSeq(s, i + Len(old), Len(s)), old, new)

\* a character the regex class \w matches
IsWordChar(c) ==
    \/ IsDigitChar(c)
    \/ c = "_"
    \/ \E i \in 1..Len(LowerAlpha) : SubSeq(LowerAlpha, i, i) = c \/ SubSeq(UpperAlpha, i, i) = c

\* whether the regex \b\d{6}\b matches at position i of query
PincodeAt(query, i) ==
    /\ i + 5 <= Len(query)
    /\ \A j \in i..(i + 5) : IsDigitChar(SubSeq(query, j, j))
    /\ (i = 1 \/ ~IsWordChar(SubSeq(query, i - 1, i - 1)))
    /\ (i + 5 = Len(query) \/ ~IsWordChar(SubSeq(query, i + 6, i + 6)))

\* extract_pincode_from_query: the first six-digit word when it does not
\* begin with 0
extract_pincode_from_query(query) ==
    IF \E i \in 1..Len(query) : PincodeAt(query, i)
    THEN LET i == CHOOSE k \in 1..Len(query) :
                      PincodeAt(query, k) /\ \A j \in 1..(k - 1) : ~PincodeAt(query, j)
             pincode == SubSeq(query, i, i + 5)
         IN  IF SubSeq(pincode, 1, 1) # "0" THEN Some(pincode) ELSE None
    ELSE None

\* enhance_query_with_location: the query to search for and the pincode found
enhance_query_with_location(query) ==
    LET pincode == extract_pincode_from_query(query)
    IN  IF ~pincode.none
        THEN LET b1 == Replace(query, "pin code " \o pincode.text, "")
                 b2 == Replace(b1, "pincode " \o pincode.text, "")
                 base_query == Strip(Replace(b2, "near me", ""))
             IN  [query |-> base_query \o " near " \o pincode.text \o " India",
                  location_info |-> pincode]
        ELSE [query |-> query, location_info |-> None]

_create_search_prompt(query, location_info) ==
    LET base_prompt ==
            "Using the latest search results provided, give current 2025 information about: "
            \o query
            \o ". Focus on recent data and current trends. Avoid outdated information."
    IN  IF ~location_info.none
        THEN base_prompt \o " Location context: " \o location_info.text
        ELSE base_prompt

memory_triggers ==
    << "remember", "earlier", "before", "previous", "last time",
       "you said", "we talked", "mentioned", "discussed" >>

\* _should_add_memory_context that finds no trigger in any query
_should_add_memory_context_never(query) == FALSE

_should_add_memory_context(query) == ContainsAny(Lower(query), memory_triggers)

RECURSIVE RecentLines(_)
\* the two lines get_relevant_context writes for each remembered turn
RecentLines(memories) ==
    IF memories = <<>> THEN <<>>
    ELSE << "You: " \o Head(memories).user_input, "AI: " \o Head(memories).ai_response >>
         \o RecentLines(Tail(memories))

\* get_relevant_context that also puts the current input among the lines
get_relevant_context_with_input(sm, ltm, current_input) ==
    JoinWith(<<"Recent conversation:">> \o RecentLines(LastN(sm, 3))
                 \o <<"You: " \o current_input>>, "\n")

\* ContextMemory.get_relevant_context: the last three session turns, then the
\* user's name and location when known
get_relevant_context(sm, ltm, current_input) ==
    LET recent == IF sm # <<>>
                  THEN <<"Recent conversation:">> \o RecentLines(LastN(sm, 3))
                  ELSE <<>>
        info   == ltm.user_info
        names  == IF "name" \in DOMAIN info
                  THEN <<"User's name: " \o info["name"]>> ELSE <<>>
        places == IF "location" \in DOMAIN info
                  THEN <<"Location: " \o info["location"]>> ELSE <<>>
        about  == IF DOMAIN info # {} /\ names \o places # <<>>
                  THEN <<"User information: " \o JoinWith(names \o places, ", ")>>
                  ELSE <<>>
    IN  JoinWith(recent \o about, "\n")

\* ContextMemory.search_memory: the conversations, in list order, whose input
\* or response holds the lowercased query, cut to the last five
search_memory(ltm, query) ==
    LET query_lower == Lower(query)
        results == SelectSeq(ltm.conversations,
                             LAMBDA conv : \/ Contains(Lower(conv.user_input), query_lower)
                                           \/ Contains(Lower(conv.ai_response), query_lower))
    IN  LastN(results, 5)

(***************************************************************************)
(* EmotionDetector                                                         *)
(***************************************************************************)
emotion_keywords ==
    << [emotion |-> "happy",    keywords |-> <<"happy", "joy", "excited", "great", "awesome", "wonderful", "amazing", "fantastic", "good", "smile", "laugh">>],
       [emotion |-> "sad",      keywords |-> <<"sad", "depressed", "down", "upset", "cry", "terrible", "awful", "bad", "disappointed", "hurt">>],
       [emotion |-> "angry",    keywords |-> <<"angry", "mad", "furious", "annoyed", "frustrated", "hate", "stupid", "idiot", "damn">>],
       [emotion |-> "anxious",  keywords |-> <<"worried", "nervous", "scared", "afraid", "anxious", "stress", "panic", "fear">>],
       [emotion |-> "confused", keywords |-> <<"confused", "lost", "dont understand", "don't get", "unclear", "what", "how", "why">>],
       [emotion |-> "tired",    keywords |-> <<"tired", "exhausted", "sleepy", "fatigue", "worn out", "drained">>],
       [emotion |-> "excited",  keywords |-> <<"excited", "thrilled", "pumped", "eager", "cant wait", "can't wait">>] >>

\* how many of the keywords the text holds
KeywordScore(text_lower, keywords) ==
    Cardinality({ j \in 1..Len(keywords) : Contains(text_lower, keywords[j]) })

\* detect_emotion: the first emotion with the highest keyword count, and
\* min(count / words * 10, 1.0) as a fraction; neutral at 0.5 without keywords
detect_emotion(text) ==
    LET text_lower == Lower(text)
        score(i)   == KeywordScore(text_lower, emotion_keywords[i].keywords)
        scored     == { i \in 1..Len(emotion_keywords) : score(i) > 0 }
    IN  IF scored # {}
        THEN LET primary == CHOOSE i \in scored :
                                /\ \A j \in scored : score(j) <= score(i)
                                /\ \A j \in scored : j < i => score(j) < score(i)
                 words   == Len(SplitWords(text))
             IN  [emotion |-> emotion_keywords[primary].emotion,
                  confidence |-> IF score(primary) * 10 >= words
                                 THEN Fraction(1, 1)
                                 ELSE Fraction(score(primary) * 10, words)]
        ELSE [emotion |-> "neutral", confidence |-> Fraction(1, 2)]

empathetic_responses ==
    [happy    |-> <<"That's wonderful to hear! I'm glad you're feeling good.",
                    "Your happiness is contagious! What's making you so happy?",
                    "I love your positive energy! Keep that smile going.">>,
     sad      |-> <<"I'm sorry you're feeling down. I'm here to listen if you want to talk.",
                    "It sounds like you're going through a tough time. How can I help?",
                    "I understand you're feeling sad. Sometimes talking helps.">>,
     angry    |-> <<"I can sense you're frustrated. Let's work through this together.",
                    "It sounds like something really bothered you. Want to tell me about it?",
                    "I hear your frustration. Let me try to help you with this.">>,
     anxious  |-> <<"I can tell you're feeling worried. Let's take this step by step.",
                    "It's okay to feel anxious. I'm here to help you through this.",
                    "Take a deep breath. We can figure this out together.">>,
     confused |-> <<"I can see this is confusing. Let me try to explain it more clearly.",
                    "No worries about being confused. Let's break this down together.",
                    "I understand this might be unclear. Let me help clarify.">>,
     tired    |-> <<"You sound exhausted. Make sure you're getting enough rest.",
                    "It seems like you need a break. Take care of yourself.",
                    "Being tired can make everything harder. How can I help?">>,
     excited  |-> <<"I can feel your excitement! That's amazing!",
                    "Your enthusiasm is wonderful! Tell me more!",
                    "I love your energy! What's got you so excited?">>]

\* get_empathetic_response, random.choice drawing the entry numbered pick
get_empathetic_response(emotion, pick) ==
    IF emotion \in DOMAIN empathetic_responses
    THEN empathetic_responses[emotion][pick]
    ELSE "I'm here to help you with whatever you need."

\* the test of enhance_ai_response with the threshold at 0.8
StrongEmotion_above_080(confidence) == confidence.num * 100 > 80 * confidence.den

\* confidence > 0.85, the test of enhance_ai_response
StrongEmotion(confidence) == confidence.num * 100 > 85 * confidence.den

(***************************************************************************)
(* PersonalitySystem: applying the style                                   *)
(***************************************************************************)
speech_patterns ==
    [friendly     |-> <<"I'd love to help!", "That sounds interesting!", "Great question!">>,
     professional |-> <<"I can provide information on", "According to my analysis", "The optimal solution would be">>,
     funny        |-> <<"That reminds me of a joke...", "Funny you should ask!", "Here's a fun fact:">>,
     wise         |-> <<"Consider this perspective:", "In my experience,", "Wisdom suggests that">>,
     energetic    |-> <<"That's AMAZING!", "Let's do this!", "You've got this!">>]

jokes ==
    << " (No pun intended... okay, maybe a little intended!)",
       " Speaking of which, why don't scientists trust atoms? Because they make up everything!",
       " That's what I call a 'byte' of information! Get it? Byte? I'll see myself out..." >>

professional_starters ==
    << "Based on available information, ", "According to current data, ",
       "From a professional standpoint, " >>

energetic_additions ==
    << " Let's make it happen!", " This is going to be great!",
       " I'm excited to help with this!" >>

wise_starters ==
    << "In my contemplation, ", "Through careful consideration, ",
       "Reflecting on this matter, " >>

wise_endings ==
    << " Such is the nature of knowledge.", " This requires thoughtful consideration.",
       " Wisdom comes through understanding." >>

\* add_humor; extra = 0 when the 20% draw fails, else the joke drawn
add_humor(response, extra) ==
    LET r1 == IF extra > 0 THEN response \o jokes[extra] ELSE response
    IN  Replace(Replace(r1, "I think", "I reckon"), "However", "But hey")

\* make_professional; extra = 0 when the 30% draw fails, else the starter drawn
make_professional(response, extra) ==
    LET r1 == Replace(Replace(Replace(response, "I think", "I believe"),
                              "pretty good", "quite effective"),
                      "really", "particularly")
    IN  IF extra > 0 THEN professional_starters[extra] \o Lower(r1) ELSE r1

\* add_energy; extra = 0 when the 40% draw fails, else the addition drawn
add_energy(response, extra) ==
    LET r1 == IF ~(EndsWith(response, "!") \/ EndsWith(response, "?") \/ EndsWith(response, "."))
              THEN response \o "!" ELSE response
        r2 == Replace(Replace(Replace(r1, "good", "AWESOME"), "yes", "ABSOLUTELY YES"),
                      "I can", "I'd LOVE to")
    IN  IF extra > 0 THEN r2 \o energetic_additions[extra] ELSE r2

\* add_wisdom that lowercases the text whether or not the starter is drawn
add_wisdom_lowers_always(response, extra, ending) ==
    LET r1 == IF extra > 0 THEN wise_starters[extra] \o Lower(response) ELSE Lower(response)
    IN  IF ending > 0 THEN r1 \o wise_endings[ending] ELSE r1

\* add_wisdom; extra and ending = 0 when their draws fail
add_wisdom(response, extra, ending) ==
    LET r1 == IF extra > 0 THEN wise_starters[extra] \o Lower(response) ELSE response
    IN  IF ending > 0 THEN r1 \o wise_endings[ending] ELSE r1

\* apply_personality_to_response; draw.flair = 0 when the 30% draw fails,
\* else the speech pattern drawn
apply_personality_to_response(personality, response, draw) ==
    LET r1 == IF draw.flair > 0
              THEN speech_patterns[personality][draw.flair] \o " " \o response
              ELSE response
    IN  CASE personality = "funny"        -> add_humor(r1, draw.extra)
          [] personality = "professional" -> make_professional(r1, draw.extra)
          [] personality = "energetic"    -> add_energy(r1, draw.extra)
          [] personality = "wise"         -> add_wisdom(r1, draw.extra, draw.ending)
          [] OTHER                        -> r1

(***************************************************************************)
(* CommonSense                                                             *)
(***************************************************************************)
CommonSenseKeep == 5

get_realistic_alternative(query) ==
    LET query_lower == Lower(query)
    IN  IF Contains(query_lower, "fly") /\ Contains(query_lower, "human")
        THEN "Humans can't fly naturally, but we can use airplanes, helicopters, or other aircraft to travel through the air."
        ELSE IF Contains(query_lower, "breathe underwater")
        THEN "Humans can't breathe underwater naturally, but we can use scuba gear or submarines to explore underwater."
        ELSE "Let me provide a more realistic perspective on that."

check_logical_consistency(query, response) ==
    LET query_lower    == Lower(query)
        response_lower == Lower(response)
    IN  IF Contains(query_lower, "yesterday") /\ Contains(response_lower, "tomorrow")
        THEN "I think there might be some confusion about time. Let me clarify: " \o response
        ELSE IF \/ Contains(response_lower, "water") /\ Contains(response_lower, "burn")
                \/ Contains(response_lower, "ice") /\ Contains(response_lower, "hot")
                \/ /\ Contains(response_lower, "fly")
                   /\ Contains(query_lower, "human")
                   /\ ~Contains(response_lower, "without")
        THEN "That doesn't seem physically possible. Let me give you a more realistic answer: "
             \o get_realistic_alternative(query)
        ELSE response

add_practical_context(query, response) ==
    LET q  == Lower(query)
        r1 == IF Contains(q, "rain")
              THEN response \o " By the way, if it's raining, don't forget an umbrella!"
              ELSE IF Contains(q, "cold")
              THEN response \o " In cold weather, make sure to dress warmly."
              ELSE IF Contains(q, "hot")
              THEN response \o " In hot weather, stay hydrated and seek shade."
              ELSE response
        r2 == IF ContainsAny(q, <<"drive", "driving", "car">>)
              THEN r1 \o " Remember to always drive safely and follow traffic rules."
              ELSE r1
        r3 == IF ContainsAny(q, <<"sick", "illness", "pain", "hurt">>)
              THEN r2 \o " If you're experiencing health issues, it's best to consult with a healthcare professional."
              ELSE r2
    IN  IF ContainsAny(q, <<"busy", "time", "schedule">>)
        THEN r3 \o " Good time management can help reduce stress and improve productivity."
        ELSE r3

apply_safety_filter(response) ==
    IF ContainsAny(Lower(response), <<"dangerous", "illegal", "harmful", "unsafe">>)
    THEN "I want to make sure I give you safe and helpful advice. " \o response
         \o " Please prioritize your safety and follow local laws and guidelines."
    ELSE response

apply_common_sense(query, ai_response) ==
    apply_safety_filter(add_practical_context(query, check_logical_consistency(query, ai_response)))

\* add_contextual_awareness at the given hour of the day and month of the year
add_contextual_awareness(query, response, hour, month) ==
    LET q  == Lower(query)
        r1 == IF Contains(q, "good morning") /\ hour > 12
              THEN "Actually, it's afternoon now, but good day to you too! " \o response
              ELSE IF Contains(q, "good evening") /\ hour < 17
              THEN "It's still daytime, but good day! " \o response
              ELSE response
    IN  IF month \in {12, 1, 2} /\ Contains(q, "summer")
        THEN "Just to note, it's currently winter season. " \o r1
        ELSE IF month \in {6, 7, 8} /\ Contains(q, "winter")
        THEN "Just to note, it's currently summer season. " \o r1
        ELSE r1

\* check_contradictions: the responses CommonSense remembers, the last five
check_contradictions(cs_memory, new_response) ==
    LET grown == Append(cs_memory, new_response)
    IN  IF Len(grown) > CommonSenseKeep THEN LastN(grown, CommonSenseKeep) ELSE grown

\* enhance_with_common_sense: the text and the remembered responses it leaves
enhance_with_common_sense(cs_memory, query, ai_response, hour, month) ==
    LET enhanced == add_contextual_awareness(query, apply_common_sense(query, ai_response),
                                             hour, month)
    IN  [text |-> enhanced, cs_memory |-> check_contradictions(cs_memory, enhanced)]

safety_keywords == << "dangerous", "harmful", "illegal", "unsafe", "hurt", "damage" >>

impossible_queries == << "fly without", "breathe underwater", "time travel", "live forever" >>

_needs_common_sense_check(query, response) ==
    \/ ContainsAny(Lower(response), safety_keywords)
    \/ ContainsAny(Lower(query), impossible_queries)

(***************************************************************************)
(* LearningSystem                                                          *)
(***************************************************************************)
LearnKeyLimit == 50
PatternKeep   == 10

\* what load_learned_data leaves when no file is on disk
NothingLearned ==
    [learned_knowledge |-> EmptyDict, preferences |-> EmptyDict, patterns |-> EmptyDict]

colors == << "red", "blue", "green", "yellow", "purple", "orange", "black", "white" >>
foods  == << "pizza", "burger", "pasta", "rice", "chicken", "fish", "salad" >>

\* the last entry of a list the text holds, the one a loop of assignments leaves
LastHeld(text, names) ==
    names[CHOOSE i \in 1..Len(names) :
              /\ Contains(text, names[i])
              /\ \A j \in (i + 1)..Len(names) : ~Contains(text, names[j])]

\* extract_preferences raises IndexError when nothing follows "my name is"
extract_preferences_raises(user_input) == extract_user_info_raises(user_input)

\* the preferences extract_preferences leaves; when it raises, the ones set
\* before the name was looked at
extract_preferences(preferences, user_input) ==
    LET text == Lower(user_input)
        fav  == Contains(text, "my favorite") \/ Contains(text, "i like") \/ Contains(text, "i love")
        p1 == IF fav /\ Contains(text, "color") /\ ContainsAny(text, colors)
              THEN DictSet(preferences, "favorite_color", LastHeld(text, colors))
              ELSE preferences
        p2 == IF fav /\ Contains(text, "food") /\ ContainsAny(text, foods)
              THEN DictSet(p1, "favorite_food", LastHeld(text, foods))
              ELSE p1
    IN  IF extract_preferences_raises(user_input) THEN p2
        ELSE LET p3 == IF Contains(text, "my name is")
                       THEN DictSet(p2, "name", SplitWords(AfterLast(text, "my name is"))[1])
                       ELSE p2
             IN  IF Contains(text, "i am from") \/ Contains(text, "i live in")
                 THEN DictSet(p3, "location",
                              Strip(AfterLast(text, IF Contains(text, "from") THEN "from" ELSE "in")))
                 ELSE p3

classify_input_type(user_input) ==
    LET text == Lower(user_input)
    IN  IF ContainsAny(text, <<"hello", "hi", "hey", "good morning">>) THEN "greeting"
        ELSE IF Contains(text, "?") THEN "question"
        ELSE IF ContainsAny(text, <<"thanks", "thank you", "bye", "goodbye">>) THEN "closing"
        ELSE IF ContainsAny(text, <<"help", "can you", "please">>) THEN "request"
        ELSE "general"

\* the list d[k] of a dict of lists, empty when the key is absent
ListAt(d, k) == IF k \in DOMAIN d THEN d[k] ELSE <<>>

analyze_conversation_pattern(patterns, user_input, ai_response) ==
    LET input_type == classify_input_type(user_input)
        grown == Append(ListAt(patterns, input_type),
                        [input |-> user_input, response |-> ai_response])
    IN  DictSet(patterns, input_type,
                IF Len(grown) > PatternKeep THEN LastN(grown, PatternKeep) ELSE grown)

store_successful_response(learned_knowledge, user_input, ai_response) ==
    LET key == Prefix(Lower(user_input), LearnKeyLimit)
    IN  DictSet(learned_knowledge, key,
                Append(ListAt(learned_knowledge, key),
                       [response |-> ai_response, success_count |-> 1]))

\* learn_from_conversation up to its save_learned_data call: the learned data
\* it leaves and whether it raised.  user_feedback is None or Some(text).
learn_from_conversation(learning, user_input, ai_response, user_feedback) ==
    LET prefs == extract_preferences(learning.preferences, user_input)
    IN  IF extract_preferences_raises(user_input)
        THEN [learning |-> [learning EXCEPT !.preferences = prefs], raised |-> TRUE]
        ELSE [learning |->
                [preferences |-> prefs,
                 patterns |-> analyze_conversation_pattern(learning.patterns, user_input, ai_response),
                 learned_knowledge |->
                    IF \/ user_feedback = Some("good")
                       \/ ContainsAny(Lower(user_input), <<"thanks", "good", "great", "perfect">>)
                    THEN store_successful_response(learning.learned_knowledge, user_input, ai_response)
                    ELSE learning.learned_knowledge],
              raised |-> FALSE]

\* save_learned_data: the three documents on disk; a failure leaves the old ones
save_learned_data(saved, learning, outcome) == IF outcome = "ok" THEN learning ELSE saved

get_contextual_response(learning, user_input) ==
    LET input_type == classify_input_type(user_input)
        known == ListAt(learning.patterns, input_type)
    IN  IF known # <<>>
        THEN "Based on our previous conversations, " \o known[Len(known)].response
        ELSE "Let me help you with that."

\* get_personalized_response that answers with the response stored last
get_personalized_response_latest(learning, user_input) ==
    LET key == Prefix(Lower(user_input), LearnKeyLimit)
    IN  IF key \in DOMAIN learning.learned_knowledge
        THEN Some(learning.learned_knowledge[key][Len(learning.learned_knowledge[key])].response)
        ELSE None

\* get_personalized_response: the first stored response with the highest
\* success count, else a greeting by name, else nothing
get_personalized_response(learning, user_input) ==
    LET key == Prefix(Lower(user_input), LearnKeyLimit)
    IN  IF key \in DOMAIN learning.learned_knowledge
        THEN LET stored == learning.learned_knowledge[key]
                 best == CHOOSE i \in 1..Len(stored) :
                            /\ \A j \in 1..Len(stored) : stored[j].success_count <= stored[i].success_count
                            /\ \A j \in 1..(i - 1) : stored[j].success_count < stored[i].success_count
             IN  Some(stored[best].response)
        ELSE IF "name" \in DOMAIN learning.preferences
        THEN Some("Hi " \o learning.preferences["name"] \o "! "
                  \o get_contextual_response(learning, user_input))
        ELSE None

(***************************************************************************)
(* TerminalAI: enhancement and the stores the background tasks write       *)
(***************************************************************************)
SearchContextLimit     == 1200
ConversationContextCap  == 20
ConversationContextKeep == 15
ConversationMemoryCap   == 15
ConversationMemoryKeep  == 10

\* the override of enhance_ai_response that takes any personalized text,
\* shorter or not
personalized_replaces_always(personalized, response) ==
    ~personalized.none /\ personalized.text # ""

\* `if personalized and len(personalized) < len(response)`, the test of the
\* override in enhance_ai_response
personalized_replaces(personalized, response) ==
    /\ ~personalized.none /\ personalized.text # ""
    /\ Len(personalized.text) < Len(response)

\* enhance_ai_response with the empathy phrase put before the text the
\* personality has already styled
enhance_ai_response_personality_first(comps_ok, personality, sm, ltm, learning, cs_memory, query, raw_response, draw) ==
    IF ~comps_ok
    THEN [text |-> raw_response, cs_memory |-> cs_memory, raised |-> TRUE,
          staged |-> raw_response,
          empathy |-> FALSE, checked |-> FALSE, framed |-> FALSE, personalized |-> FALSE]
    ELSE LET felt    == detect_emotion(query)
             strong  == StrongEmotion(felt.confidence)
             r0      == apply_personality_to_response(personality, raw_response, draw)
             r1      == IF strong
                        THEN get_empathetic_response(felt.emotion, draw.empathy) \o " " \o r0
                        ELSE r0
             check   == _needs_common_sense_check(query, r1)
             sense   == IF check
                        THEN enhance_with_common_sense(cs_memory, query, r1, draw.hour, draw.month)
                        ELSE [text |-> r1, cs_memory |-> cs_memory]
             frame   == /\ _should_add_memory_context(query)
                        /\ get_relevant_context(sm, ltm, query) # ""
             r3      == IF frame THEN "Based on our conversation, " \o sense.text ELSE sense.text
             swap    == personalized_replaces(get_personalized_response(learning, query), r3)
         IN  [text |-> Strip(IF swap THEN get_personalized_response(learning, query).text
                                     ELSE r3),
              cs_memory |-> sense.cs_memory, raised |-> FALSE, staged |-> r3,
              empathy |-> strong, checked |-> check, framed |-> frame, personalized |-> swap]

\* enhance_ai_response: the text returned, what CommonSense remembers after
\* it, and (history) the text before the override and which steps acted.
\* With the components missing the first step raises and the raw text is
\* returned.
enhance_ai_response(comps_ok, personality, sm, ltm, learning, cs_memory, query, raw_response, draw) ==
    IF ~comps_ok
    THEN [text |-> raw_response, cs_memory |-> cs_memory, raised |-> TRUE,
          staged |-> raw_response,
          empathy |-> FALSE, checked |-> FALSE, framed |-> FALSE, personalized |-> FALSE]
    ELSE LET felt    == detect_emotion(query)
             strong  == StrongEmotion(felt.confidence)
             r0      == IF strong
                        THEN get_empathetic_response(felt.emotion, draw.empathy) \o " " \o raw_response
                        ELSE raw_response
             r1      == apply_personality_to_response(personality, r0, draw)
             check   == _needs_common_sense_check(query, r1)
             sense   == IF check
                        THEN enhance_with_common_sense(cs_memory, query, r1, draw.hour, draw.month)
                        ELSE [text |-> r1, cs_memory |-> cs_memory]
             frame   == /\ _should_add_memory_context(query)
                        /\ get_relevant_context(sm, ltm, query) # ""
             r3      == IF frame THEN "Based on our conversation, " \o sense.text ELSE sense.text
             swap    == personalized_replaces(get_personalized_response(learning, query), r3)
         IN  [text |-> Strip(IF swap THEN get_personalized_response(learning, query).text
                                     ELSE r3),
              cs_memory |-> sense.cs_memory, raised |-> FALSE, staged |-> r3,
              empathy |-> strong, checked |-> check, framed |-> frame, personalized |-> swap]

\* _apply_translation: the language is english, or the simplified service
\* hands the text back, or the service is missing and the error is swallowed
_apply_translation(response) == response

\* _update_conversation_context that keeps the oldest lines on overflow
_update_conversation_context_keep_oldest(context, query, response) ==
    LET grown == Append(context, "Q: " \o query \o " A: " \o response)
    IN  IF Len(grown) > ConversationContextCap
        THEN SubSeq(grown, 1, ConversationContextKeep)
        ELSE grown

\* _update_conversation_context
_update_conversation_context(context, query, response) ==
    LET grown == Append(context, "Q: " \o query \o " A: " \o response)
    IN  IF Len(grown) > ConversationContextCap
        THEN LastN(grown, ConversationContextKeep)
        ELSE grown

\* save_to_memory
save_to_memory(memory, query, response, t) ==
    LET grown == Append(memory, [question |-> query, answer |-> response, timestamp |-> t])
    IN  IF Len(grown) > ConversationMemoryCap
        THEN LastN(grown, ConversationMemoryKeep)
        ELSE grown

\* save_knowledge: the knowledge base in memory after the call
save_knowledge(kb, query, answer, t) ==
    LET key == Prefix(Lower(query), KeyLimit)
        used == IF key \in DOMAIN kb THEN kb[key].usage_count ELSE 0
    IN  DictSet(kb, key, [answer |-> answer, timestamp |-> t, usage_count |-> used + 1])

\* the tasks save_enhanced_memory submits, in order; with the components
\* missing the third submit raises and the error is swallowed
TaskNames ==
    << "save_to_memory", "save_knowledge", "add_to_session_memory",
       "add_to_long_term_memory", "learn_from_conversation" >>

save_enhanced_memory(comps_ok, turn_no, query, response) ==
    { [task |-> TaskNames[i], turn |-> turn_no, query |-> query, response |-> response] :
        i \in 1..(IF comps_ok THEN Len(TaskNames) ELSE 2) }

(***************************************************************************)
(* The classifier on its own: queries built from fragments that hit every  *)
(* rule tier, alone and combined.                                          *)
(***************************************************************************)
MaxParts == 3

\* the long-term store of a first run: no document on disk
LtmConstructed ==
    /\ memory_file = [state |-> "missing", doc |-> DefaultLongTerm]
    /\ long_term_memory = load_memory(memory_file)
    /\ ltm_raised = FALSE

NoCall == [kind |-> "none"]

InitialStats ==
    [total_queries |-> 0, cache_hits |-> 0, search_requests |-> 0,
     average_response_time |-> Fraction(0, 1)]

\* _setup_performance_optimizations, then _load_initial_data's _clear_old_cache
CacheConstructed ==
    LET cleared == _clear_old_cache(<<>>, <<>>, 0, 0)
    IN  /\ response_cache = cleared.response_cache
        /\ search_cache = cleared.search_cache
        /\ last_cache_clear = cleared.last_cache_clear
        /\ performance_stats = InitialStats
        /\ last_call = NoCall /\ prev_call = NoCall

\* PersonalitySystem.__init__, all components built
PersConstructed ==
    /\ current_personality = "friendly"
    /\ components_ok = TRUE

\* the locals of a call that has not begun; stages (history) lists the states
\* of the turn the call has entered
NoTurn ==
    [query |-> "", route |-> "", path |-> "", fell_back |-> FALSE, enhanced_query |-> "",
     location_info |-> None, search_results |-> "", prompt |-> "", context |-> "",
     raw_response |-> "", cache_hit |-> FALSE, backend |-> None, stages |-> <<>>]

\* the steps of enhance_ai_response that acted, when none did
NotEnhanced ==
    [text |-> "", cs_memory |-> <<>>, raised |-> FALSE, staged |-> "", empathy |-> FALSE,
     checked |-> FALSE, framed |-> FALSE, personalized |-> FALSE]

NoResult ==
    [turn |-> 0, query |-> "", text |-> "", raised |-> FALSE, route |-> "", path |-> "",
     fell_back |-> FALSE, search_results |-> "", prompt |-> "", context |-> "",
     raw_response |-> "", cache_hit |-> FALSE, backend |-> None, enhanced |-> NotEnhanced,
     stages |-> <<>>]

\* TerminalAI.__init__ on a first run: nothing on disk, no turn begun
TurnConstructed ==
    /\ pc = "idle"
    /\ turn = NoTurn
    /\ returned = NoResult
    /\ conversation_context = <<>>
    /\ conversation_memory = <<>>
    /\ knowledge = EmptyDict
    /\ knowledge_file = EmptyDict
    /\ learning_system = NothingLearned
    /\ learning_files = NothingLearned
    /\ common_sense_memory = <<>>
    /\ pending = {}
    /\ running = {}

Fragments ==
    { "Hello", "right now", "latest", "news", "price of gold", "near me",
      "what is water", " Why", "tell me", "?" }

ClsInit ==
    /\ cls_query = ""
    /\ cls_parts = 0
    /\ cls_result = needs_search("")

Classify(f) ==
    /\ cls_parts < MaxParts
    /\ cls_query' = (IF cls_query = "" THEN f ELSE cls_query \o " " \o f)
    /\ cls_parts' = cls_parts + 1
    /\ cls_result' = needs_search(cls_query')

ClsNext == \E f \in Fragments : Classify(f)

ClsStep == ClsNext /\ UNCHANGED <<now, calls, sess_vars, ltm_vars, cache_vars, pers_vars, turn_vars>>

\* needs_search alone: the assistant as constructed, no query classified yet
ClassifyInit ==
    /\ ClsInit /\ now = 0 /\ calls = 0
    /\ session_memory = <<>> /\ session_log = <<>>
    /\ LtmConstructed /\ CacheConstructed /\ PersConstructed /\ TurnConstructed

SpecClassify == ClassifyInit /\ [][ClsStep]_vars

\* what the classified query contains, case-insensitively
HasSkip    == ContainsAny(Lower(cls_query), immediate_skip)
HasCommand == ContainsAny(Lower(cls_query), command_patterns)
HasTrigger == ContainsAny(Lower(cls_query), priority_triggers)

\* C4: a query that contains an immediate-skip phrase, in any letter case and
\* whatever else it contains, is never sent to the search path.
C4_SkipPhraseWins == HasSkip => cls_result = FALSE

\* a query with a skip phrase and a priority trigger was classified
C4_Witness == cls_query = "Hello latest" /\ cls_result = FALSE

\* C5 as stated: every query that contains a priority trigger is sent to the
\* search path, also when it contains an immediate-skip phrase.
C5_TriggerAlwaysSearches == HasTrigger => cls_result = TRUE

\* C5 amended: a priority trigger sends the query to the search path when the
\* query holds neither an immediate-skip phrase nor a command keyword; with an
\* immediate-skip phrase ("hello" beside "latest", or the "no" inside "now")
\* the query is not searched.
C5_TriggerAfterSkipAndCommand ==
    /\ (HasTrigger /\ ~HasSkip /\ ~HasCommand) => cls_result = TRUE
    /\ (HasTrigger /\ HasSkip) => cls_result = FALSE

\* a trigger with a basic-knowledge phrase and no skip phrase was searched
C5_Witness == cls_query = "latest what is water" /\ cls_result = TRUE

\* the rule tiers after the immediate-skip phrases, in the order of section 4.1
RuleTiers ==
    << [phrases |-> command_patterns,    verdict |-> FALSE],
       [phrases |-> priority_triggers,   verdict |-> TRUE],
       [phrases |-> info_requests,       verdict |-> TRUE],
       [phrases |-> location_indicators, verdict |-> TRUE],
       [phrases |-> basic_knowledge,     verdict |-> FALSE] >>

\* the verdict of the first tier with a phrase in q, else the default rule
FirstMatchVerdict(q) ==
    LET ql  == Strip(Lower(q))
        hit == { i \in 1..Len(RuleTiers) : ContainsAny(ql, RuleTiers[i].phrases) }
    IN  IF hit # {}
        THEN RuleTiers[CHOOSE i \in hit : \A j \in hit : i <= j].verdict
        ELSE \/ Contains(q, "?")
             \/ \E j \in 1..Len(interrogatives) : StartsWith(ql, interrogatives[j])

\* C6: without an immediate-skip phrase the verdict is that of the first
\* matching tier in the order command, trigger, information request,
\* location, basic knowledge, and otherwise true iff the query holds a "?"
\* or starts with an interrogative word.
C6_FirstTierDecides == ~HasSkip => cls_result = FirstMatchVerdict(cls_query)

\* a command keyword beside a priority trigger was classified as no search
C6_Witness == cls_query = "latest news" /\ cls_result = FALSE

(***************************************************************************)
(* The session buffer on its own: the buffer after a number of scripted    *)
(* turns, then appends with inputs chosen freely.                          *)
(***************************************************************************)
MaxCalls == 4
SessionSlack == 2

Inputs == { "hello", "my name is Sam", "what is the price of gold?" }
Replies == { "Hi there!", "ok" }

RECURSIVE SessionAppends(_, _, _)
\* the buffer after the scripted turns "turn lo" .. "turn hi" appended to sm
SessionAppends(sm, lo, hi) ==
    IF lo > hi THEN sm
    ELSE IF lo = hi
    THEN add_to_session_memory(sm, "turn " \o ToString(lo), "reply " \o ToString(lo), 0)
    ELSE LET mid == (lo + hi) \div 2
             half == SessionAppends(sm, lo, mid)
         IN  \* the first half is computed before the second is begun
             IF Len(half) >= 0 THEN SessionAppends(half, mid + 1, hi) ELSE half

\* the buffer after n scripted turns from the empty buffer
SessionAfter(n) == SessionAppends(<<>>, 1, n)

ScriptedLog(n) == [i \in 1..n |-> LoggedTurn("turn " \o ToString(i), "reply " \o ToString(i))]

SessInit ==
    \E n \in {0} \cup ((SessionCap - SessionSlack)..(SessionCap + 1)) :
        /\ session_memory = SessionAfter(n)
        /\ session_log = ScriptedLog(n)

AddToSession(u, r) ==
    /\ calls < MaxCalls
    /\ calls' = calls + 1
    /\ session_memory' = add_to_session_memory(session_memory, u, r, now)
    /\ session_log' = Append(session_log, LoggedTurn(u, r))

SessNext == \E u \in Inputs, r \in Replies : AddToSession(u, r)

SessStep == SessNext /\ UNCHANGED <<now, cls_vars, ltm_vars, cache_vars, pers_vars, turn_vars>>

\* the session buffer alone: the rest of the assistant as constructed
SessionInit ==
    /\ SessInit /\ ClsInit /\ LtmConstructed /\ CacheConstructed /\ PersConstructed /\ TurnConstructed
    /\ now = 0 /\ calls = 0

SpecSession == SessionInit /\ [][SessStep]_vars

\* C7: after any sequence of appends made one after another the session
\* buffer holds at most 20 turns, and once more than 20 were appended it
\* holds exactly the 20 most recently appended ones, in append order.
C7_SessionHoldsLast20 ==
    /\ Len(session_memory) <= SessionCap
    /\ TurnsOf(session_memory) = LastN(session_log, SessionCap)

\* more than 20 turns were appended, the last of them by a free append
C7_Witness ==
    /\ Len(session_log) > SessionCap + 1
    /\ calls > 1
    /\ Len(session_memory) = SessionCap

(***************************************************************************)
(* The long-term store on its own: the store after a number of scripted    *)
(* inserts (each saved), then inserts with inputs chosen freely.           *)
(***************************************************************************)
LongTermSlack == 1
MaxLtmCalls   == 3

LtmInputs ==
    { "ok", "what?", "i love pizza", "My name is Sam", "my name is",
      "i am sad, please help?" }

\* the inputs the scripted inserts cycle through
LtmScripts ==
    { << "ok" >>, << "My name is Sam" >>, << "what?", "ok", "i am from Goa" >> }

RECURSIVE LongTermInserts(_, _, _, _)
\* the store after the scripted inserts number lo .. hi made on ltm, in order
LongTermInserts(ltm, lo, hi, script) ==
    IF lo > hi THEN ltm
    ELSE IF lo = hi
    THEN add_to_long_term_memory(ltm, script[((lo - 1) % Len(script)) + 1],
                                 "reply " \o ToString(lo), 0).ltm
    ELSE LET mid == (lo + hi) \div 2
             half == LongTermInserts(ltm, lo, mid, script)
         IN  \* the first half is computed before the second is begun
             IF Len(half.conversations) >= 0
             THEN LongTermInserts(half, mid + 1, hi, script)
             ELSE half

\* the store after n scripted inserts from the default structure
LongTermAfter(n, script) == LongTermInserts(DefaultLongTerm, 1, n, script)

LtmInit ==
    \E n \in (LongTermCap - LongTermSlack)..LongTermCap, script \in LtmScripts :
        /\ long_term_memory = LongTermAfter(n, script)
        /\ memory_file = [state |-> "ok", doc |-> long_term_memory]
        /\ ltm_raised = FALSE

AddToLongTerm(u, r, outcome) ==
    /\ calls < MaxLtmCalls
    /\ calls' = calls + 1
    /\ \E res \in { add_to_long_term_memory(long_term_memory, u, r, now) } :
           /\ long_term_memory' = res.ltm
           /\ ltm_raised' = res.raised
           /\ memory_file' = IF res.raised THEN memory_file
                             ELSE save_memory(memory_file, res.ltm, outcome)

LtmNext == \E u \in LtmInputs, r \in Replies, o \in SaveOutcomes : AddToLongTerm(u, r, o)

LtmStep == LtmNext /\ UNCHANGED <<now, cls_vars, sess_vars, cache_vars, pers_vars, turn_vars>>

\* the long-term store alone: the rest of the assistant as constructed
LongTermInit ==
    /\ LtmInit /\ ClsInit /\ CacheConstructed /\ PersConstructed /\ TurnConstructed
    /\ now = 0 /\ calls = 0
    /\ session_memory = <<>> /\ session_log = <<>>

SpecLongTerm == LongTermInit /\ [][LtmStep]_vars

\* C8: after any sequence of inserts, with any user inputs, the long-term
\* conversations list holds at most 100 entries.
C8_LongTermAtMost100 == Len(long_term_memory.conversations) <= LongTermCap

\* an add_to_long_term_memory call is made in this step
InsertStep == calls' = calls + 1

\* save_memory could not write: the document is as it was, or is cut short
SaveFailed == memory_file' = memory_file \/ memory_file'.state = "corrupt"

\* C28: add_to_long_term_memory completes for every input, keeps the store
\* within 100 entries and persists it: after the call the document on disk
\* equals the store in memory (unless the file could not be written).
C28_EveryInsertCompletesAndPersists ==
    [][ InsertStep =>
            /\ ~ltm_raised'
            /\ Len(long_term_memory'.conversations) <= LongTermCap
            /\ memory_file'.doc = long_term_memory' \/ SaveFailed ]_vars

\* What does hold of C28: an insert that completes keeps the store within
\* 100 entries and leaves the document equal to the store; an insert that
\* raises leaves the new entry in the store and the document untouched.
C28_CompletedInsertPersists ==
    [][ InsertStep =>
            IF ltm_raised'
            THEN /\ Len(long_term_memory'.conversations)
                       = Len(long_term_memory.conversations) + 1
                 /\ memory_file' = memory_file
            ELSE /\ Len(long_term_memory'.conversations) <= LongTermCap
                 /\ memory_file'.doc = long_term_memory' \/ SaveFailed ]_vars

\* an insert raised on a full store: 101 entries in memory, 100 on disk
C28_RaisedInsertNotPersisted ==
    /\ ltm_raised
    /\ Len(long_term_memory.conversations) = LongTermCap + 1
    /\ memory_file.state = "ok"
    /\ Len(memory_file.doc.conversations) = LongTermCap

(***************************************************************************)
(* The caches on their own: get_ai_response and search_web called directly *)
(* while the clock advances.                                               *)
(***************************************************************************)
MaxCacheCalls == 2

Prompts  == { "hello", "Hi, how are you", "Thanks and bye", "what is water" }
Contexts == { "", "Water is H2O." }

BackendOutcomes ==
    { [raises |-> TRUE,  content |-> ""],
      [raises |-> FALSE, content |-> "  "],
      [raises |-> FALSE, content |-> " Water is wet. "] }

SearchQueries == { "price of gold", "error codes" }

SearchOutcomes ==
    { [kind |-> "found", results |-> << [title |-> "Gold", snippet |-> "Gold rose."] >>],
      [kind |-> "no_results"], [kind |-> "failed"],
      [kind |-> "empty"], [kind |-> "error_text"], [kind |-> "raises"] }

CallSecs == { 1, 3 }

\* time passes between calls: a little more than half the TTL at a time
Tick ==
    /\ now <= cache_ttl
    /\ now' = now + (cache_ttl \div 2) + 1
    /\ UNCHANGED <<cache_vars, calls>>

CallAi(prompt, context, outcome, secs) ==
    /\ calls < MaxCacheCalls
    /\ calls' = calls + 1
    /\ \E res \in { get_ai_response(response_cache, performance_stats, current_personality,
                                      components_ok, prompt, context, outcome, secs, now) } :
           /\ response_cache' = res.response_cache
           /\ performance_stats' = res.performance_stats
           /\ last_call' = [kind |-> "ai", prompt |-> prompt, context |-> context,
                            outcome |-> outcome, text |-> res.text, hit |-> res.hit,
                            key |-> res.key, entry_at |-> res.entry_at,
                            backend |-> res.backend, at |-> now]
    /\ now' = now + secs
    /\ UNCHANGED <<search_cache, last_cache_clear, prev_call>>

CallSearch(query, outcome, secs) ==
    /\ calls < MaxCacheCalls
    /\ calls' = calls + 1
    /\ \E res \in { search_web(search_cache, performance_stats, components_ok,
                                 query, outcome, secs, now) } :
           /\ search_cache' = res.search_cache
           /\ performance_stats' = res.performance_stats
           /\ last_call' = [kind |-> "search", prompt |-> query, context |-> "",
                            outcome |-> outcome, text |-> res.text, hit |-> res.hit,
                            key |-> res.key, entry_at |-> res.entry_at,
                            backend |-> res.client, at |-> now]
    /\ now' = now + secs
    /\ UNCHANGED <<response_cache, last_cache_clear, prev_call>>

\* what no call of the cache layer touches
CacheRest == UNCHANGED <<cls_vars, sess_vars, ltm_vars, pers_vars, turn_vars>>

CacheNext ==
    \/ Tick /\ CacheRest
    \/ \E p \in Prompts, c \in Contexts, o \in BackendOutcomes, secs \in CallSecs :
          CallAi(p, c, o, secs) /\ CacheRest
    \/ \E q \in SearchQueries, o \in SearchOutcomes, secs \in CallSecs :
          CallSearch(q, o, secs) /\ CacheRest

\* the cache layer alone: the assistant as constructed, at time 0
CacheInit ==
    /\ CacheConstructed /\ ClsInit /\ LtmConstructed /\ PersConstructed /\ TurnConstructed
    /\ now = 0 /\ calls = 0
    /\ session_memory = <<>> /\ session_log = <<>>

SpecCache == CacheInit /\ [][CacheNext]_vars

\* the last call was a get_ai_response whose backend call failed: it raised,
\* timed out or returned empty text, and the key was not cached
BackendFailed ==
    /\ last_call.kind = "ai"
    /\ ~last_call.hit
    /\ (last_call.outcome.raises \/ Strip(last_call.outcome.content) = "")

\* the fallback the table gives for a prompt, key by key in table order
TableFallback(prompt) ==
    LET p == Lower(prompt)
    IN  IF Contains(p, "hello") THEN "Hello! How can I help you today?"
        ELSE IF Contains(p, "hi") THEN "Hi there! What can I do for you?"
        ELSE IF Contains(p, "how are you") THEN "I'm doing well, thank you! How are you?"
        ELSE IF Contains(p, "thanks") THEN "You're welcome! Happy to help!"
        ELSE IF Contains(p, "bye") THEN "Goodbye! Have a great day!"
        ELSE generic_fallback

\* C2: when the backend call fails and the prompt is not cached,
\* get_ai_response returns the table entry of the first key, in table order,
\* that the lowercased prompt contains, and the try-again text when none does.
C2_FallbackFromTable == BackendFailed => last_call.text = TableFallback(last_call.prompt)

\* the backend raised on the uncached prompt "hello" and the greeting came back
C2_Witness ==
    /\ BackendFailed
    /\ last_call.outcome.raises
    /\ last_call.prompt = "hello"
    /\ last_call.text = "Hello! How can I help you today?"

\* C10: a cache hit is never served more than 3600 seconds after the last
\* clear: a call that late would have emptied both caches and reset the clear
\* time before its lookup.
C10_NoHitPastTtl ==
    (last_call.kind # "none" /\ last_call.hit) => (last_call.at - last_cache_clear) <= cache_ttl

\* C11: a get_ai_response call whose (prompt, context) key is in the response
\* cache when the call is made returns the cached text, leaves the cache as it
\* was and does not invoke the backend; a call that invoked the backend found
\* no entry under its key.
C11_HitSkipsBackend ==
    [][ (calls' = calls + 1 /\ last_call'.kind = "ai") =>
          LET key == _generate_cache_key(last_call'.prompt, last_call'.context)
          IN  /\ InCache(response_cache, key) =>
                    /\ last_call'.hit
                    /\ last_call'.backend.none
                    /\ last_call'.text = CacheGet(response_cache, key).text
                    /\ response_cache' = response_cache
              /\ ~last_call'.backend.none => ~InCache(response_cache, key) ]_vars

\* a call on a cached key came back with the cached answer although the
\* backend would have raised had it been called
C11_Witness ==
    /\ last_call.kind = "ai"
    /\ last_call.hit
    /\ last_call.outcome.raises
    /\ last_call.backend.none
    /\ last_call.text = "Water is wet."

(***************************************************************************)
(* The caches when nearly full: the state after a number of scripted       *)
(* get_ai_response calls, each answered by the backend, then the same      *)
(* calls as above.                                                         *)
(***************************************************************************)
FillSlack == 1

RECURSIVE CacheFill(_, _, _)
\* the result of the scripted calls number lo .. hi made after `res`, in order
CacheFill(res, lo, hi) ==
    IF lo > hi THEN res
    ELSE IF lo = hi
    THEN get_ai_response(res.response_cache, res.performance_stats, "friendly", TRUE,
                         "question " \o ToString(lo), "",
                         [raises |-> FALSE, content |-> "answer " \o ToString(lo)], 0, 0)
    ELSE LET mid == (lo + hi) \div 2
             half == CacheFill(res, lo, mid)
         IN  \* the first half is computed before the second is begun
             IF Len(half.response_cache) >= 0 THEN CacheFill(half, mid + 1, hi) ELSE half

CacheFullInit ==
    \E n \in (max_cache_size - FillSlack)..max_cache_size :
        \E res \in { CacheFill([response_cache |-> <<>>, performance_stats |-> InitialStats], 1, n) } :
            /\ response_cache = res.response_cache
            /\ performance_stats = res.performance_stats
            /\ search_cache = <<>>
            /\ last_cache_clear = 0
            /\ last_call = NoCall /\ prev_call = NoCall

\* the cache layer alone, the response cache at or just under the cap
CacheFullStart ==
    /\ CacheFullInit /\ ClsInit /\ LtmConstructed /\ PersConstructed /\ TurnConstructed
    /\ now = 0 /\ calls = 0
    /\ session_memory = <<>> /\ session_log = <<>>

SpecCacheFull == CacheFullStart /\ [][CacheNext]_vars

\* C9: once a cache-touching call has finished, neither cache holds more
\* than the 1000-entry cap.
C9_CachesWithinCap ==
    last_call.kind # "none" =>
        /\ Len(response_cache) <= max_cache_size
        /\ Len(search_cache) <= max_cache_size

(***************************************************************************)
(* The response-time average: get_ai_response and search_web called        *)
(* directly, with (history) the samples handed to _update_response_time    *)
(* and the call made before the last one.                                  *)
(***************************************************************************)
MaxTimingCalls == 3

TimingPrompts == { "hello", "what is water" }

TimingSearchOutcomes == { o \in SearchOutcomes : o.kind \in {"found", "raises"} }

\* the samples folded into the average so far, oldest first
SamplesSoFar == IF last_call.kind = "timed" THEN last_call.samples ELSE <<>>

\* get_ai_response; a sample is folded in when the backend answered
TimedAi(prompt, context, outcome, secs) ==
    /\ calls < MaxTimingCalls
    /\ calls' = calls + 1
    /\ \E res \in { get_ai_response(response_cache, performance_stats, current_personality,
                                      components_ok, prompt, context, outcome, secs, now) } :
           /\ response_cache' = res.response_cache
           /\ performance_stats' = res.performance_stats
           /\ last_call' = [kind |-> "timed", call |-> "ai", hit |-> res.hit,
                            prompt |-> prompt, context |-> context, outcome |-> outcome,
                            text |-> res.text, backend |-> res.backend,
                            folded |-> res.answered,
                            samples |-> IF res.answered THEN Append(SamplesSoFar, secs)
                                        ELSE SamplesSoFar]
    /\ now' = now + secs
    /\ prev_call' = last_call
    /\ UNCHANGED <<search_cache, last_cache_clear, cls_vars, sess_vars, ltm_vars, pers_vars,
                   turn_vars>>

\* search_web; a sample is folded in when the client was asked and returned
TimedSearch(query, outcome, secs) ==
    /\ calls < MaxTimingCalls
    /\ calls' = calls + 1
    /\ \E res \in { search_web(search_cache, performance_stats, components_ok,
                                 query, outcome, secs, now) } :
           /\ search_cache' = res.search_cache
           /\ performance_stats' = res.performance_stats
           /\ last_call' = [kind |-> "timed", call |-> "search", hit |-> res.hit,
                            prompt |-> query, context |-> "", outcome |-> outcome,
                            text |-> res.text, backend |-> res.client,
                            folded |-> ~res.client.none,
                            samples |-> IF ~res.client.none THEN Append(SamplesSoFar, secs)
                                        ELSE SamplesSoFar]
    /\ now' = now + secs
    /\ prev_call' = last_call
    /\ UNCHANGED <<response_cache, last_cache_clear, cls_vars, sess_vars, ltm_vars, pers_vars,
                   turn_vars>>

TimingNext ==
    \/ \E p \in TimingPrompts, c \in Contexts, o \in BackendOutcomes, secs \in CallSecs :
           TimedAi(p, c, o, secs)
    \/ \E q \in SearchQueries, o \in TimingSearchOutcomes, secs \in CallSecs :
           TimedSearch(q, o, secs)

SpecTiming == CacheInit /\ [][TimingNext]_vars

RECURSIVE SumOf(_)
SumOf(samples) == IF samples = <<>> THEN 0 ELSE Head(samples) + SumOf(Tail(samples))

\* C31: after any sequence of get_ai_response and search_web calls the
\* average response time is the arithmetic mean of the samples folded in so
\* far; after the first sample it is that sample.
C31_AverageIsMeanOfSamples ==
    (last_call.kind = "timed" /\ last_call.samples # <<>>) =>
        performance_stats.average_response_time.num * Len(last_call.samples)
            = SumOf(last_call.samples) * performance_stats.average_response_time.den

\* What does hold of C31: the update divides by total_queries + 1, the count
\* of get_ai_response calls begun, whatever the number of samples; a sample
\* folded in while total_queries is 0 takes the place of the average.
C31_AverageUsesQueryCount ==
    [][ (calls' = calls + 1 /\ last_call'.folded) =>
            LET old    == performance_stats.average_response_time
                new    == performance_stats'.average_response_time
                n      == performance_stats'.total_queries
                sample == last_call'.samples[Len(last_call'.samples)]
            IN  IF n = 0
                THEN new = Fraction(sample, 1)
                ELSE new.num * (old.den * (n + 1))
                        = (old.num * n + sample * old.den) * new.den ]_vars

\* the first sample, of 3 seconds, folded in by the first get_ai_response
\* call: the average is a second and a half
C31_FirstSampleHalved ==
    /\ last_call.kind = "timed" /\ last_call.samples = << 3 >>
    /\ performance_stats.total_queries = 1
    /\ performance_stats.average_response_time = Fraction(3, 2)

\* two samples folded in by search_web alone: the average is the second
C31_SearchSampleReplacesAverage ==
    /\ last_call.kind = "timed" /\ last_call.samples = << 1, 3 >>
    /\ performance_stats.total_queries = 0
    /\ performance_stats.average_response_time = Fraction(3, 1)

\* the last call was a get_ai_response call that found no entry and whose
\* backend call raised, timed out or returned blank text
TimedBackendFailed(call) ==
    /\ call.kind = "timed" /\ call.call = "ai"
    /\ ~call.hit
    /\ (call.outcome.raises \/ Strip(call.outcome.content) = "")

\* the texts get_ai_response returns in place of an answer
FallbackTexts ==
    { fallback_responses[j].response : j \in 1..Len(fallback_responses) } \cup { generic_fallback }

\* C37: a fallback response is never stored in the response cache: every
\* entry is a non-empty text the backend returned; a call whose backend call
\* failed returns a fallback and leaves the cache as it was, and the next
\* call with the same prompt and context invokes the backend again.
C37_FallbackNeverCached ==
    /\ [](\A i \in 1..Len(response_cache) :
              /\ response_cache[i].text # ""
              /\ response_cache[i].text \notin FallbackTexts
              /\ \E o \in BackendOutcomes :
                     ~o.raises /\ response_cache[i].text = Strip(o.content))
    /\ [][ (calls' = calls + 1 /\ last_call'.call = "ai") =>
              /\ TimedBackendFailed(last_call') =>
                     /\ last_call'.text \in FallbackTexts
                     /\ response_cache' = response_cache
              /\ (/\ TimedBackendFailed(last_call)
                  /\ last_call'.prompt = last_call.prompt
                  /\ last_call'.context = last_call.context) =>
                     /\ ~last_call'.hit
                     /\ ~last_call'.backend.none ]_vars

\* the backend raised, the table fallback was returned, and the same prompt
\* and context, asked again, went to the backend and its answer was cached
C37_Witness ==
    /\ TimedBackendFailed(prev_call)
    /\ prev_call.outcome.raises
    /\ prev_call.prompt = "hello" /\ prev_call.context = "Water is H2O."
    /\ prev_call.text = "Hello! How can I help you today?"
    /\ last_call.kind = "timed" /\ last_call.call = "ai"
    /\ last_call.prompt = prev_call.prompt /\ last_call.context = prev_call.context
    /\ ~last_call.hit /\ ~last_call.backend.none
    /\ last_call.text = "Water is wet."
    /\ Len(response_cache) = 1 /\ response_cache[1].text = "Water is wet."

(***************************************************************************)
(* The cache key on its own: _generate_cache_key called on prompts and     *)
(* contexts whose combination is around the key limit.                     *)
(***************************************************************************)
MaxKeyCalls == 2
KeySlack == 2

\* a prompt stem longer than the key limit, in mixed case
KeyStem ==
    "Tell me EVERYTHING you know about the History of the Roman Empire, from its founding to the FALL of Rome"

KeyTails == { "", "X", "xy" }

KeyPrompts ==
    { Prefix(KeyStem, n) \o tail : n \in (KeyLimit - KeySlack)..KeyLimit, tail \in KeyTails }

KeyContexts == { "", "a", "B", "ab" }

GenerateKey(prompt, context) ==
    /\ calls < MaxKeyCalls
    /\ calls' = calls + 1
    /\ prev_call' = last_call
    /\ last_call' = [kind |-> "key", prompt |-> prompt, context |-> context,
                     key |-> _generate_cache_key(prompt, context)]
    /\ UNCHANGED <<now, response_cache, search_cache, last_cache_clear, performance_stats,
                   cls_vars, sess_vars, ltm_vars, pers_vars, turn_vars>>

KeyNext == \E p \in KeyPrompts, c \in KeyContexts : GenerateKey(p, c)

SpecKey == CacheInit /\ [][KeyNext]_vars

\* the lowercased "prompt:context" a key call was made on
Combined(call) == Lower(call.prompt \o ":" \o call.context)

\* a and b hold the same characters at every position up to n that either has
AgreeUpTo(a, b, n) ==
    \A i \in 1..n :
        IF i <= Len(a) /\ i <= Len(b) THEN SubSeq(a, i, i) = SubSeq(b, i, i)
        ELSE i > Len(a) /\ i > Len(b)

\* C12: the key is the lowercased "prompt:context" cut to its first 100
\* characters: a longer combination gives a key of exactly 100 characters, and
\* two pairs whose lowercased combinations agree on the first 100 characters
\* get the same key.
C12_KeyIsCutTo100 ==
    last_call.kind = "key" =>
        /\ Len(last_call.key) <= KeyLimit
        /\ AgreeUpTo(last_call.key, Combined(last_call), KeyLimit)
        /\ Len(Combined(last_call)) > KeyLimit => Len(last_call.key) = KeyLimit
        /\ (prev_call.kind = "key" /\ AgreeUpTo(Combined(prev_call), Combined(last_call), KeyLimit))
              => prev_call.key = last_call.key

\* two pairs longer than 100 characters that differ only after the first 100
\* were given one and the same key
C12_Witness ==
    /\ last_call.kind = "key" /\ prev_call.kind = "key"
    /\ Len(Combined(last_call)) > KeyLimit
    /\ Len(Combined(prev_call)) > KeyLimit
    /\ Combined(last_call) # Combined(prev_call)
    /\ last_call.key = prev_call.key
    /\ Len(last_call.key) = KeyLimit

(***************************************************************************)
(* The personality selector on its own: set_personality called with names  *)
(* of the table, in other letter case, and unknown.                        *)
(***************************************************************************)
MaxPersonalityCalls == 3

PersonalityNames ==
    { "friendly", "professional", "funny", "wise", "energetic",
      "bogus", "Energetic", "" }

SetPersonality(name) ==
    /\ calls < MaxPersonalityCalls
    /\ calls' = calls + 1
    /\ \E res \in { set_personality(current_personality, name) } :
           /\ current_personality' = res.current
           /\ prev_call' = last_call
           /\ last_call' = [kind |-> "set_personality", name |-> name,
                            returned |-> res.returned, before |-> current_personality]
    /\ UNCHANGED <<now, response_cache, search_cache, last_cache_clear, performance_stats,
                   components_ok, cls_vars, sess_vars, ltm_vars, turn_vars>>

PersonalityNext == \E name \in PersonalityNames : SetPersonality(name)

SpecPersonality == CacheInit /\ [][PersonalityNext]_vars

\* C14 as stated: a name that is not one of the five table names is refused
\* and changes nothing; one of the five is accepted and becomes active.
C14_ExactNameDecides ==
    last_call.kind = "set_personality" =>
        IF last_call.name \in Personalities
        THEN last_call.returned /\ current_personality = last_call.name
        ELSE ~last_call.returned /\ current_personality = last_call.before

\* C14 amended: the name is compared after lowercasing.  A name whose
\* lowercase form is not in the table returns False and leaves the active
\* personality unchanged; any other returns True and its lowercase form
\* becomes active.
C14_LowercasedNameDecides ==
    last_call.kind = "set_personality" =>
        IF Lower(last_call.name) \in Personalities
        THEN last_call.returned /\ current_personality = Lower(last_call.name)
        ELSE ~last_call.returned /\ current_personality = last_call.before

\* "energetic" was selected, then "bogus" was refused and "energetic" stayed
C14_Witness ==
    /\ prev_call.kind = "set_personality" /\ prev_call.name = "energetic"
    /\ prev_call.returned
    /\ last_call.kind = "set_personality" /\ last_call.name = "bogus"
    /\ ~last_call.returned
    /\ current_personality = "energetic"

(***************************************************************************)
(* The style on its own: apply_personality_to_response called on a text    *)
(* under the personality that set_personality calls have left active.      *)
(***************************************************************************)
MaxStyleCalls == 2

StyleResponses ==
    { "It is late.", "I think it is really good", "However, yes I can", "ok" }

StyleDraws ==
    [empathy : {1}, flair : {0, 2}, extra : {0, 1, 3}, ending : {0, 2},
     hour : {15}, month : {1}]

ApplyStyle(response, draw) ==
    /\ calls < MaxStyleCalls
    /\ calls' = calls + 1
    /\ prev_call' = last_call
    /\ last_call' = [kind |-> "style", response |-> response, draw |-> draw,
                     before |-> current_personality,
                     returned |-> apply_personality_to_response(current_personality,
                                                                response, draw)]
    /\ UNCHANGED <<now, response_cache, search_cache, last_cache_clear, performance_stats,
                   cls_vars, sess_vars, ltm_vars, pers_vars, turn_vars>>

StyleNext ==
    \/ \E name \in PersonalityNames : SetPersonality(name)
    \/ \E r \in StyleResponses, d \in StyleDraws : ApplyStyle(r, d)

SpecStyle == CacheInit /\ [][StyleNext]_vars

\* the words the active personality puts in the place of others
Substituted(response) ==
    CASE current_personality = "funny" ->
             Replace(Replace(response, "I think", "I reckon"), "However", "But hey")
      [] current_personality = "professional" ->
             Replace(Replace(Replace(response, "I think", "I believe"),
                             "pretty good", "quite effective"), "really", "particularly")
      [] current_personality = "energetic" ->
             Replace(Replace(Replace(response, "good", "AWESOME"), "yes", "ABSOLUTELY YES"),
                     "I can", "I'd LOVE to")
      [] OTHER -> response

\* the professional or the wise personality drew its starter, which is put
\* before the lowercased text
StarterDrawn ==
    current_personality \in {"professional", "wise"} /\ last_call.draw.extra > 0

\* C33 as stated: for each personality and every outcome of the draws the
\* output of apply_personality_to_response contains the original response.
C33_OriginalTextIsSubstring ==
    last_call.kind = "style" => Contains(last_call.returned, last_call.response)

\* C33 amended: the output contains the response as the word substitutions of
\* the active personality leave it, lowercased when the professional or the
\* wise personality draws its starter; so it contains the original response
\* under the friendly personality, and under the others when the response
\* holds none of the substituted words and the starter is not drawn.
C33_StyledTextIsSubstring ==
    last_call.kind = "style" =>
        LET kept == IF StarterDrawn THEN Lower(Substituted(last_call.response))
                    ELSE Substituted(last_call.response)
        IN  /\ Contains(last_call.returned, kept)
            /\ current_personality = "friendly" =>
                   Contains(last_call.returned, last_call.response)
            /\ (Substituted(last_call.response) = last_call.response /\ ~StarterDrawn) =>
                   Contains(last_call.returned, last_call.response)

\* the professional personality with pattern and starter: the words are
\* substituted and the whole is lowercased
C33_Witness ==
    /\ last_call.kind = "style" /\ last_call.response = "I think it is really good"
    /\ current_personality = "professional"
    /\ last_call.draw.flair = 2 /\ last_call.draw.extra = 1
    /\ last_call.returned = "Based on available information, "
                              \o "according to my analysis i believe it is particularly good"
    /\ ~Contains(last_call.returned, last_call.response)

\* the energetic personality: the words of the response are replaced
C33_EnergeticReplacesWords ==
    /\ last_call.kind = "style" /\ last_call.response = "However, yes I can"
    /\ current_personality = "energetic"
    /\ last_call.draw.flair = 0 /\ last_call.draw.extra = 0
    /\ last_call.returned = "However, ABSOLUTELY YES I'd LOVE to!"

(***************************************************************************)
(* The long-term document on disk: inserts on the store as constructed,    *)
(* and the store saved and loaded back as a restart does.                  *)
(***************************************************************************)
PersistInputs ==
    { "ok", "My name is \"Sam\"", "i love to cook pizza\n",
      "i am 30 years old, i live in C:\\temp" }

PersistReplies == { "ok", "He said \"hi\"\tback" }

PersistOutcomes == { "ok", "write_failed" }

\* save_memory, then load_memory as a newly built ContextMemory runs it
SaveThenLoad ==
    /\ \E saved \in { save_memory(memory_file, long_term_memory, "ok") } :
           /\ memory_file' = saved
           /\ long_term_memory' = load_memory(saved)
    /\ last_call' = [kind |-> "reload", saved |-> long_term_memory,
                     loaded |-> long_term_memory']
    /\ UNCHANGED <<now, calls, ltm_raised, prev_call, response_cache, search_cache,
                   last_cache_clear, performance_stats, cls_vars, sess_vars, pers_vars,
                   turn_vars>>

PersistNext ==
    \/ /\ \E u \in PersistInputs, r \in PersistReplies, o \in PersistOutcomes :
              AddToLongTerm(u, r, o)
       /\ UNCHANGED <<now, cls_vars, sess_vars, cache_vars, pers_vars, turn_vars>>
    \/ SaveThenLoad

SpecPersist == CacheInit /\ [][PersistNext]_vars

\* C15: the long-term store saved and then loaded, with nothing changed in
\* between, comes back equal field for field: the conversations with their
\* importance, user_info and topics.
C15_SaveThenLoadIsEqual ==
    last_call.kind = "reload" =>
        /\ last_call.loaded.conversations = last_call.saved.conversations
        /\ last_call.loaded.user_info = last_call.saved.user_info
        /\ last_call.loaded.topics = last_call.saved.topics
        /\ last_call.loaded = last_call.saved

\* a store with a quoted name, an age, a topic count and a conversation of
\* importance 5 was saved and loaded back
C15_Witness ==
    /\ last_call.kind = "reload"
    /\ Len(last_call.saved.conversations) > 1
    /\ "name" \in DOMAIN last_call.saved.user_info
    /\ "age" \in DOMAIN last_call.saved.user_info
    /\ last_call.saved.topics # EmptyDict
    /\ \E i \in 1..Len(last_call.loaded.conversations) :
           last_call.loaded.conversations[i].importance > 4
    /\ last_call.loaded = last_call.saved

(***************************************************************************)
(* The importance score on its own: calculate_importance on a text and on  *)
(* the same text with a personal-info phrase added at its end.             *)
(***************************************************************************)
MaxImportanceCalls == 2

ImportanceTexts ==
    { "", "hello", "what is this?", "i am happy", "My Name is Sam",
      "please help, i need it", "I LIVE here and i love it",
      "one two three four five six seven eight nine ten" }

ImportancePhrases == { personal_phrases[i] : i \in DOMAIN personal_phrases }

WithPhrase(text, phrase) == IF text = "" THEN phrase ELSE text \o " " \o phrase

ScoreImportance(text, phrase) ==
    /\ calls < MaxImportanceCalls
    /\ calls' = calls + 1
    /\ prev_call' = last_call
    /\ last_call' = [kind |-> "importance", text |-> text, phrase |-> phrase,
                     without |-> calculate_importance(text),
                     with |-> calculate_importance(WithPhrase(text, phrase))]
    /\ UNCHANGED <<now, response_cache, search_cache, last_cache_clear, performance_stats,
                   cls_vars, sess_vars, ltm_vars, pers_vars, turn_vars>>

ImportanceNext == \E text \in ImportanceTexts, p \in ImportancePhrases : ScoreImportance(text, p)

SpecImportance == CacheInit /\ [][ImportanceNext]_vars

\* C16 as stated: for every text and every personal-info phrase, the text with
\* the phrase added scores strictly more than the text without it.
C16_PhraseStrictlyRaises ==
    last_call.kind = "importance" => last_call.with > last_call.without

\* C16: a personal-info phrase added to a text that holds none of the five
\* phrases raises the score by 5 (by 6 when the added words take the text past
\* 10 words); added to a text that already holds one of them it never lowers
\* the score and raises it by at most the 1 of the word count.
C16_PhraseRaisesWhenNonePresent ==
    last_call.kind = "importance" =>
        LET gain == last_call.with - last_call.without
            crosses == /\ Len(SplitWords(Lower(last_call.text))) <= 10
                       /\ Len(SplitWords(Lower(WithPhrase(last_call.text, last_call.phrase)))) > 10
            held == ContainsAny(Lower(last_call.text), personal_phrases)
        IN  gain = (IF held THEN 0 ELSE 5) + (IF crosses THEN 1 ELSE 0)

\* "my job" added to a question without personal information took it from 2 to 7
C16_Witness ==
    /\ last_call.kind = "importance"
    /\ last_call.text = "what is this?"
    /\ last_call.phrase = "my job"
    /\ last_call.without = 2
    /\ last_call.with = 7

(***************************************************************************)
(* The context read on its own: turns recorded in the session buffer and   *)
(* in the long-term store, and get_relevant_context called between them.   *)
(***************************************************************************)
MaxContextCalls == 7

ContextSessionInputs == { "hello", "my name is Sam" }
ContextLongTermInputs == { "hello", "My name is Sam and i live in Paris" }
ContextReplies == { "ok" }
ContextQueries == { "hi", "what did i say" }

RecordInSession(u, r) ==
    /\ calls < MaxContextCalls
    /\ calls' = calls + 1
    /\ session_memory' = add_to_session_memory(session_memory, u, r, now)
    /\ session_log' = Append(session_log, LoggedTurn(u, r))
    /\ prev_call' = last_call
    /\ last_call' = [kind |-> "recorded"]
    /\ UNCHANGED <<now, response_cache, search_cache, last_cache_clear, performance_stats,
                   cls_vars, ltm_vars, pers_vars, turn_vars>>

RecordInLongTerm(u, r) ==
    /\ calls < MaxContextCalls
    /\ calls' = calls + 1
    /\ \E res \in { add_to_long_term_memory(long_term_memory, u, r, now) } :
           /\ long_term_memory' = res.ltm
           /\ ltm_raised' = res.raised
           /\ memory_file' = IF res.raised THEN memory_file
                             ELSE save_memory(memory_file, res.ltm, "ok")
    /\ prev_call' = last_call
    /\ last_call' = [kind |-> "recorded"]
    /\ UNCHANGED <<now, response_cache, search_cache, last_cache_clear, performance_stats,
                   cls_vars, sess_vars, pers_vars, turn_vars>>

\* get_relevant_context assigns to nothing of the object
GetContext(current_input) ==
    /\ calls < MaxContextCalls
    /\ calls' = calls + 1
    /\ prev_call' = last_call
    /\ last_call' = [kind |-> "context", input |-> current_input,
                     text |-> get_relevant_context(session_memory, long_term_memory,
                                                   current_input)]
    /\ UNCHANGED <<now, response_cache, search_cache, last_cache_clear, performance_stats,
                   cls_vars, sess_vars, ltm_vars, pers_vars, turn_vars>>

ContextNext ==
    \/ \E u \in ContextSessionInputs, r \in ContextReplies : RecordInSession(u, r)
    \/ \E u \in ContextLongTermInputs, r \in ContextReplies : RecordInLongTerm(u, r)
    \/ \E q \in ContextQueries : GetContext(q)

SpecContext == CacheInit /\ [][ContextNext]_vars

\* the "You:" and "AI:" lines of one session turn
TurnLines(m) == "You: " \o m.user_input \o "\nAI: " \o m.ai_response

\* C17: get_relevant_context is idempotent and read-only: two calls with no
\* turn recorded in between return the identical text, which holds the last 3
\* session turns as You:/AI: lines and the known name and location and is the
\* empty string when none of these is stored; and the call changes neither
\* the session buffer nor the long-term store.
C17_ContextIsIdempotentAndReadOnly ==
    /\ [](last_call.kind = "context" =>
            LET info == long_term_memory.user_info
                kept == LastN(session_memory, 3)
            IN  /\ prev_call.kind = "context" => prev_call.text = last_call.text
                /\ last_call.text = "" <=>
                       /\ session_memory = <<>>
                       /\ "name" \notin DOMAIN info
                       /\ "location" \notin DOMAIN info
                /\ \A i \in 1..Len(kept) : Contains(last_call.text, TurnLines(kept[i]))
                /\ Len(session_memory) > 3 =>
                       ~Contains(last_call.text,
                                 JoinWith([i \in 1..4 |-> TurnLines(LastN(session_memory, 4)[i])],
                                          "\n"))
                /\ "name" \in DOMAIN info =>
                       Contains(last_call.text, "User's name: " \o info["name"])
                /\ "location" \in DOMAIN info =>
                       Contains(last_call.text, "Location: " \o info["location"]))
    /\ [][ last_call'.kind = "context" /\ calls' # calls =>
               /\ session_memory' = session_memory
               /\ long_term_memory' = long_term_memory
               /\ memory_file' = memory_file ]_vars

\* two calls in a row, with different inputs, on a buffer of four turns and a
\* known name and location
C17_Witness ==
    /\ last_call.kind = "context"
    /\ prev_call.kind = "context"
    /\ prev_call.input # last_call.input
    /\ Len(session_memory) > 3
    /\ DOMAIN long_term_memory.user_info = {"name", "location"}
    /\ last_call.text # ""

(***************************************************************************)
(* The long-term search on its own: inserts stamped with the time of the   *)
(* insert, which grows from one insert to the next, and search_memory      *)
(* called between them.                                                    *)
(***************************************************************************)
MaxSearchMemoryCalls == 3

SearchMemoryInputs == { "ok", "what?" }
SearchMemoryQueries == { "reply", "WHAT", "zzz" }

RECURSIVE TimedInserts(_, _, _, _)
\* the store after the scripted inserts lo .. hi, insert i made at time i
TimedInserts(ltm, lo, hi, script) ==
    IF lo > hi THEN ltm
    ELSE IF lo = hi
    THEN add_to_long_term_memory(ltm, script[((lo - 1) % Len(script)) + 1],
                                 "reply " \o ToString(lo), lo).ltm
    ELSE LET mid == (lo + hi) \div 2
             half == TimedInserts(ltm, lo, mid, script)
         IN  \* the first half is computed before the second is begun
             IF Len(half.conversations) >= 0
             THEN TimedInserts(half, mid + 1, hi, script)
             ELSE half

SearchMemoryInit ==
    /\ \E n \in {0} \cup ((LongTermCap - LongTermSlack)..LongTermCap), script \in LtmScripts :
           /\ long_term_memory = TimedInserts(DefaultLongTerm, 1, n, script)
           /\ now = n
    /\ memory_file = [state |-> "ok", doc |-> long_term_memory]
    /\ ltm_raised = FALSE
    /\ ClsInit /\ CacheConstructed /\ PersConstructed /\ TurnConstructed
    /\ calls = 0
    /\ session_memory = <<>> /\ session_log = <<>>

\* add_to_long_term_memory at the next instant
TimedInsert(u) ==
    /\ calls < MaxSearchMemoryCalls
    /\ calls' = calls + 1
    /\ now' = now + 1
    /\ \E res \in { add_to_long_term_memory(long_term_memory, u,
                                           "reply " \o ToString(now'), now') } :
           /\ long_term_memory' = res.ltm
           /\ ltm_raised' = res.raised
           /\ memory_file' = IF res.raised THEN memory_file
                             ELSE save_memory(memory_file, res.ltm, "ok")
    /\ prev_call' = last_call
    /\ last_call' = [kind |-> "recorded"]
    /\ UNCHANGED <<response_cache, search_cache, last_cache_clear, performance_stats,
                   cls_vars, sess_vars, pers_vars, turn_vars>>

SearchMemory(query) ==
    /\ calls < MaxSearchMemoryCalls
    /\ calls' = calls + 1
    /\ prev_call' = last_call
    /\ last_call' = [kind |-> "search_memory", query |-> query,
                     results |-> search_memory(long_term_memory, query)]
    /\ UNCHANGED <<now, response_cache, search_cache, last_cache_clear, performance_stats,
                   cls_vars, sess_vars, ltm_vars, pers_vars, turn_vars>>

SearchMemoryNext ==
    \/ \E u \in SearchMemoryInputs : TimedInsert(u)
    \/ \E q \in SearchMemoryQueries : SearchMemory(q)

SpecSearchMemory == SearchMemoryInit /\ [][SearchMemoryNext]_vars

\* conversation c holds the query, whatever the case of either
Matches(c, query) ==
    \/ Contains(Lower(c.user_input), Lower(query))
    \/ Contains(Lower(c.ai_response), Lower(query))

\* C18: search_memory(q) returns the last 5 stored long-term turns whose input
\* or response contains q case-insensitively, listed in the order they were
\* inserted, after any sequence of inserts including ones that overflowed the
\* 100-entry retention.
C18_SearchReturnsLastFiveInInsertionOrder ==
    last_call.kind = "search_memory" =>
        LET results == last_call.results
            stored  == long_term_memory.conversations
            matching == { i \in 1..Len(stored) : Matches(stored[i], last_call.query) }
        IN  /\ Len(results) = IF Cardinality(matching) < 5 THEN Cardinality(matching) ELSE 5
            /\ \A k \in 1..Len(results) : \E i \in matching : stored[i] = results[k]
            /\ \A k \in 1..(Len(results) - 1) : results[k].timestamp < results[k + 1].timestamp
            /\ \A i \in matching :
                   \/ \E k \in 1..Len(results) : results[k] = stored[i]
                   \/ \A k \in 1..Len(results) : stored[i].timestamp < results[k].timestamp

\* a search on a store that has not overflowed returned the five turns
\* inserted last, in the order of their insertion
C18_BeforeOverflow ==
    /\ last_call.kind = "search_memory"
    /\ Len(long_term_memory.conversations) = LongTermCap
    /\ Len(last_call.results) = 5
    /\ \A k \in 1..5 : last_call.results[k].timestamp = now - 5 + k

(***************************************************************************)
(* The overflow of the long-term store: inserts, each stamped with its     *)
(* own time, on a store that holds 99 or 100 entries of mixed importance.  *)
(***************************************************************************)
MaxOverflowCalls == 3

OverflowInputs == { "ok", "what?", "My name is Sam", "my name is" }

OverflowInit ==
    /\ \E n \in (LongTermCap - LongTermSlack)..LongTermCap, script \in LtmScripts :
           /\ long_term_memory = TimedInserts(DefaultLongTerm, 1, n, script)
           /\ now = n
    /\ memory_file = [state |-> "ok", doc |-> long_term_memory]
    /\ ltm_raised = FALSE
    /\ ClsInit /\ CacheConstructed /\ PersConstructed /\ TurnConstructed
    /\ calls = 0
    /\ session_memory = <<>> /\ session_log = <<>>

\* add_to_long_term_memory at the next instant; (history) the input and the
\* conversations stored before the call
OverflowInsert(u) ==
    /\ calls < MaxOverflowCalls
    /\ calls' = calls + 1
    /\ now' = now + 1
    /\ \E res \in { add_to_long_term_memory(long_term_memory, u,
                                           "reply " \o ToString(now'), now') } :
           /\ long_term_memory' = res.ltm
           /\ ltm_raised' = res.raised
           /\ memory_file' = IF res.raised THEN memory_file
                             ELSE save_memory(memory_file, res.ltm, "ok")
           /\ last_call' = [kind |-> "insert", input |-> u, raised |-> res.raised,
                            before |-> long_term_memory.conversations]
    /\ prev_call' = last_call
    /\ UNCHANGED <<response_cache, search_cache, last_cache_clear, performance_stats,
                   cls_vars, sess_vars, pers_vars, turn_vars>>

OverflowNext == \E u \in OverflowInputs : OverflowInsert(u)

SpecOverflow == OverflowInit /\ [][OverflowNext]_vars

\* the lowest importance among the entries of a list
LowestImportance(convs) ==
    CHOOSE m \in { convs[i].importance : i \in 1..Len(convs) } :
        \A i \in 1..Len(convs) : m <= convs[i].importance

\* the entries of a list with importance m, in the order of the list
OfImportance(convs, m) == SelectSeq(convs, LAMBDA c : c.importance = m)

\* the entries of a list as a set
Stored(convs) == { convs[i] : i \in 1..Len(convs) }

\* the last insert was made on a store that held 100 entries
InsertOnFullStore ==
    last_call.kind = "insert" /\ Len(last_call.before) = LongTermCap

\* the last insert completed on a store that held 100 entries
OverflowedInsert == InsertOnFullStore /\ ~last_call.raised

\* the entries of each importance kept from before the insert are an initial
\* part of what they were, in the same order
TieOrderKept ==
    LET older == SelectSeq(long_term_memory.conversations, LAMBDA c : c.timestamp # now)
    IN  \A m \in 0..13 :
           /\ Len(OfImportance(older, m)) <= Len(OfImportance(last_call.before, m))
           /\ OfImportance(older, m)
                  = SubSeq(OfImportance(last_call.before, m), 1, Len(OfImportance(older, m)))

\* the new turn is not above the lowest importance stored before the insert
NewTurnNotAboveLowest ==
    calculate_importance(last_call.input) <= LowestImportance(last_call.before)

\* the new turn was dropped: the conversations stored are those stored before
NewTurnDropped ==
    /\ Stored(long_term_memory.conversations) = Stored(last_call.before)
    /\ Len(long_term_memory.conversations) = LongTermCap

\* C29: when an insert overflows a store of 100 entries, the entries of equal
\* importance keep their existing order and the ones cut are the latest of
\* the lowest importance; so a new turn whose importance is not greater than
\* the lowest stored importance is itself the one dropped, and the set of
\* stored conversations is the same as before the insert.
C29_TieAtCutOffDropsNewTurn ==
    InsertOnFullStore =>
        /\ TieOrderKept
        /\ NewTurnNotAboveLowest => NewTurnDropped

\* What does hold of C29: the same of every insert that completes.
C29_CompletedInsertDropsNewTurnOnTie ==
    OverflowedInsert =>
        /\ TieOrderKept
        /\ NewTurnNotAboveLowest => NewTurnDropped

\* an insert raised on a store of 100 entries none of which is less important
\* than the new turn: the new turn stays, the store holds 101
C29_RaisedInsertKeepsNewTurn ==
    /\ InsertOnFullStore /\ last_call.raised
    /\ NewTurnNotAboveLowest
    /\ Len(long_term_memory.conversations) = LongTermCap + 1
    /\ \E c \in Stored(long_term_memory.conversations) : c.timestamp = now

\* a new turn of the lowest stored importance was dropped by the insert
C29_TieDropped ==
    /\ OverflowedInsert
    /\ calculate_importance(last_call.input) = LowestImportance(last_call.before)
    /\ \E i, j \in 1..LongTermCap :
           last_call.before[i].importance # last_call.before[j].importance
    /\ Stored(long_term_memory.conversations) = Stored(last_call.before)

\* a new turn of higher importance took the place of the latest entry of the
\* lowest importance
C29_HigherImportanceIsKept ==
    /\ OverflowedInsert
    /\ calculate_importance(last_call.input) > LowestImportance(last_call.before)
    /\ \E c \in Stored(long_term_memory.conversations) : c.timestamp = now
    /\ Stored(last_call.before) \ Stored(long_term_memory.conversations)
           = { OfImportance(last_call.before, LowestImportance(last_call.before))
                   [Len(OfImportance(last_call.before, LowestImportance(last_call.before)))] }

(***************************************************************************)
(* The learning system on its own: learn_from_conversation with and        *)
(* without feedback, and get_personalized_response asked between the calls *)
(***************************************************************************)
MaxLearnCalls == 2

\* a query longer than the 50 characters of a learned-knowledge key
LongQuery == "Thanks a lot for the detailed answer you gave me about"

LearnInputs ==
    { "hello", "My name is Sam", "that was perfect",
      "Thanks, my name is", LongQuery \o " rivers", LongQuery \o " LAKES" }

LearnReplies == { "Sure.", "You are welcome!" }

LearnFeedbacks == { None, Some("good"), Some("bad") }

\* the three documents are written without failure
LearnOutcomes == { "ok" }

\* ai_learned_knowledge.json as load_learned_data may find it: absent, or
\* holding responses whose success counts differ
KnowledgeFiles ==
    { EmptyDict,
      "that was perfect" :> << [response |-> "Glad it helped.", success_count |-> 1],
                               [response |-> "Any time.",       success_count |-> 3],
                               [response |-> "My pleasure.",    success_count |-> 3],
                               [response |-> "Cheers.",         success_count |-> 2] >> }

LearningInit ==
    /\ ClsInit /\ LtmConstructed /\ CacheConstructed /\ PersConstructed
    /\ \E file \in KnowledgeFiles :
           /\ learning_files = [NothingLearned EXCEPT !.learned_knowledge = file]
           /\ learning_system = learning_files
    /\ pc = "idle" /\ turn = NoTurn /\ returned = NoResult
    /\ conversation_context = <<>> /\ conversation_memory = <<>>
    /\ knowledge = <<>> /\ knowledge_file = <<>>
    /\ common_sense_memory = <<>>
    /\ pending = {} /\ running = {}
    /\ now = 0 /\ calls = 0
    /\ session_memory = <<>> /\ session_log = <<>>

Learn(user_input, ai_response, user_feedback, outcome) ==
    /\ calls < MaxLearnCalls
    /\ calls' = calls + 1
    /\ \E res \in { learn_from_conversation(learning_system, user_input, ai_response,
                                           user_feedback) } :
           /\ learning_system' = res.learning
           /\ learning_files' = IF res.raised THEN learning_files
                                ELSE save_learned_data(learning_files, res.learning, outcome)
           /\ last_call' = [kind |-> "learn", input |-> user_input, response |-> ai_response,
                            feedback |-> user_feedback, raised |-> res.raised,
                            before |-> learning_system]
    /\ prev_call' = last_call
    /\ UNCHANGED <<now, response_cache, search_cache, last_cache_clear, performance_stats,
                   cls_vars, sess_vars, ltm_vars, pers_vars, pc, turn, returned,
                   conversation_context, conversation_memory, knowledge, knowledge_file,
                   common_sense_memory, pending, running>>

GetPersonalized(user_input) ==
    /\ calls < MaxLearnCalls
    /\ calls' = calls + 1
    /\ prev_call' = last_call
    /\ last_call' = [kind |-> "personalized", input |-> user_input,
                     returned |-> get_personalized_response(learning_system, user_input)]
    /\ UNCHANGED <<now, response_cache, search_cache, last_cache_clear, performance_stats,
                   cls_vars, sess_vars, ltm_vars, pers_vars, turn_vars>>

LearningNext ==
    \/ \E u \in LearnInputs, r \in LearnReplies, f \in LearnFeedbacks, o \in LearnOutcomes :
           Learn(u, r, f, o)
    \/ \E u \in LearnInputs : GetPersonalized(u)

SpecLearning == LearningInit /\ [][LearningNext]_vars

\* the feedback is "good" or the input holds a word of thanks or praise
Praised(call) ==
    \/ call.feedback = Some("good")
    \/ ContainsAny(Lower(call.input), <<"thanks", "good", "great", "perfect">>)

\* C19: learn_from_conversation updates the preferences and the
\* conversation-pattern table on every call, for every input: the name given
\* in the input is the known name and the turn is the last pattern of its
\* type; and it appends the turn to the learned-knowledge table if and only if
\* the feedback is "good" or the input contains thanks, good, great or perfect.
C19_LearnAlwaysUpdatesAndStoresOnPraise ==
    last_call.kind = "learn" =>
        LET type == classify_input_type(last_call.input)
            key  == Prefix(Lower(last_call.input), LearnKeyLimit)
            was  == ListAt(last_call.before.learned_knowledge, key)
            is   == ListAt(learning_system.learned_knowledge, key)
            seen == ListAt(learning_system.patterns, type)
        IN  /\ Contains(Lower(last_call.input), "my name is") =>
                   "name" \in DOMAIN learning_system.preferences
            /\ seen # <<>>
            /\ seen[Len(seen)] = [input |-> last_call.input, response |-> last_call.response]
            /\ IF Praised(last_call)
               THEN is = Append(was, [response |-> last_call.response, success_count |-> 1])
               ELSE learning_system.learned_knowledge = last_call.before.learned_knowledge

\* a call without praise and with feedback "bad" updated the name and the
\* patterns and stored nothing; the call before it stored its turn on "good"
C19_CompletedCalls ==
    /\ last_call.kind = "learn" /\ prev_call.kind = "learn"
    /\ ~last_call.raised
    /\ last_call.input = "My name is Sam" /\ last_call.feedback = Some("bad")
    /\ learning_system.preferences["name"] = "sam"
    /\ prev_call.input = "hello" /\ prev_call.feedback = Some("good")
    /\ "hello" \in DOMAIN learning_system.learned_knowledge

\* C20: get_personalized_response(query) returns, when the lowercased
\* 50-character prefix of the query is a learned-knowledge key, the stored
\* response with the highest success_count, the earliest stored one on a tie;
\* otherwise, when a user name is known, a reply that begins "Hi <name>! ";
\* otherwise None.
C20_BestStoredElseGreetingElseNone ==
    last_call.kind = "personalized" =>
        LET key    == SubSeq(Lower(last_call.input), 1,
                             IF Len(last_call.input) < 50 THEN Len(last_call.input) ELSE 50)
            known  == learning_system.learned_knowledge
            prefs  == learning_system.preferences
            answer == last_call.returned
        IN  IF key \in DOMAIN known
            THEN /\ ~answer.none
                 /\ \E i \in 1..Len(known[key]) :
                        /\ answer.text = known[key][i].response
                        /\ \A j \in 1..Len(known[key]) :
                               known[key][j].success_count <= known[key][i].success_count
                        /\ \A j \in 1..(i - 1) :
                               known[key][j].success_count < known[key][i].success_count
            ELSE IF "name" \in DOMAIN prefs
            THEN /\ ~answer.none
                 /\ StartsWith(answer.text, "Hi " \o prefs["name"] \o "! ")
            ELSE answer.none

\* of five stored responses with success counts 1, 3, 3, 2, 1 the first of
\* the two with count 3 was returned
C20_Witness ==
    /\ last_call.kind = "personalized"
    /\ last_call.input = "that was perfect"
    /\ "that was perfect" \in DOMAIN learning_system.learned_knowledge
    /\ Len(learning_system.learned_knowledge["that was perfect"]) = 5
    /\ last_call.returned = Some("Any time.")

\* a query that shares only its first 50 characters with the one learned got
\* the response stored for it
C20_SharedPrefix ==
    /\ last_call.kind = "personalized" /\ prev_call.kind = "learn"
    /\ last_call.input = LongQuery \o " LAKES"
    /\ prev_call.input = LongQuery \o " rivers"
    /\ last_call.returned = Some(prev_call.response)

\* with nothing stored for the query and the name known, the reply greets by name
C20_Greeting ==
    /\ last_call.kind = "personalized" /\ last_call.input = "hello"
    /\ last_call.returned = Some("Hi sam! Let me help you with that.")

(***************************************************************************)
(* The enhancement on its own: enhance_ai_response called on a query and a *)
(* backend answer, by an assistant built with every component, in the      *)
(* memory states a few recorded turns leave.                               *)
(***************************************************************************)
MaxEnhanceCalls == 1

FramePrefix == "Based on our conversation, "

EnhanceQueries ==
    { "hello", "remember what you said", "so sad, remember time travel", "that was perfect" }

EnhanceRaws == { "I think it is really good", "It is dangerous " }

EnhanceDraws ==
    [empathy : {2}, flair : {0, 3}, extra : {0, 2}, ending : {1},
     hour : {15}, month : {1}]

\* the session buffer as constructed, and after one turn
EnhanceSessions == { <<>>, add_to_session_memory(<<>>, "hello", "Hi there", 0) }

\* the long-term store as constructed, and after a turn that gave a name
EnhanceLongTerms ==
    { DefaultLongTerm,
      add_to_long_term_memory(DefaultLongTerm, "my name is Sam", "Nice to meet you", 0).ltm }

\* the learning system as constructed, after a turn that gave a name, and
\* after a praised turn
EnhanceLearnings ==
    { NothingLearned,
      learn_from_conversation(NothingLearned, "my name is Sam", "Nice to meet you", None).learning,
      learn_from_conversation(NothingLearned, "that was perfect", "Any time.", None).learning }

EnhanceInit ==
    /\ ClsInit /\ CacheConstructed
    /\ components_ok = TRUE
    /\ current_personality \in Personalities
    /\ session_memory \in EnhanceSessions
    /\ session_log = <<>>
    /\ long_term_memory \in EnhanceLongTerms
    /\ memory_file = [state |-> "missing", doc |-> DefaultLongTerm]
    /\ ltm_raised = FALSE
    /\ learning_system \in EnhanceLearnings
    /\ learning_files = NothingLearned
    /\ pc = "idle" /\ turn = NoTurn /\ returned = NoResult
    /\ conversation_context = <<>> /\ conversation_memory = <<>>
    /\ knowledge = <<>> /\ knowledge_file = <<>>
    /\ common_sense_memory = <<>>
    /\ pending = {} /\ running = {}
    /\ now = 0 /\ calls = 0

\* enhance_ai_response; CommonSense remembers the text it checked
EnhanceCall(query, raw_response, draw) ==
    /\ calls < MaxEnhanceCalls
    /\ calls' = calls + 1
    /\ \E res \in { enhance_ai_response(components_ok, current_personality, session_memory,
                                       long_term_memory, learning_system,
                                       common_sense_memory, query, raw_response, draw) } :
           /\ common_sense_memory' = res.cs_memory
           /\ last_call' = [kind |-> "enhance", query |-> query, raw |-> raw_response,
                            draw |-> draw, result |-> res]
    /\ prev_call' = last_call
    /\ UNCHANGED <<now, response_cache, search_cache, last_cache_clear, performance_stats,
                   cls_vars, sess_vars, ltm_vars, pers_vars, pc, turn, returned,
                   conversation_context, conversation_memory, knowledge, knowledge_file,
                   learning_system, learning_files, pending, running>>

EnhanceNext ==
    \E q \in EnhanceQueries, r \in EnhanceRaws, d \in EnhanceDraws : EnhanceCall(q, r, d)

SpecEnhance == EnhanceInit /\ [][EnhanceNext]_vars

\* the empathy phrase drawn for the query of the last call
EmpathyPhrase ==
    get_empathetic_response(detect_emotion(last_call.query).emotion, last_call.draw.empathy)

\* whether the personality of the last call lowered the text handed to it
Lowered == current_personality \in {"professional", "wise"} /\ last_call.draw.extra > 0

\* a piece of the text handed to the personality, as its replacements and its
\* lowering leave it
Styled(piece) ==
    CASE current_personality = "funny"        -> add_humor(piece, 0)
      [] current_personality = "professional" ->
             IF Lowered THEN Lower(make_professional(piece, 0)) ELSE make_professional(piece, 0)
      [] current_personality = "wise"         -> IF Lowered THEN Lower(piece) ELSE piece
      [] OTHER                                -> piece

\* what the personality of the last call put after the text, "" if nothing
PersonalityAddition ==
    CASE current_personality = "energetic" /\ last_call.draw.extra > 0 ->
             energetic_additions[last_call.draw.extra]
      [] current_personality = "funny" /\ last_call.draw.extra > 0 ->
             jokes[last_call.draw.extra]
      [] current_personality = "wise" /\ last_call.draw.ending > 0 ->
             wise_endings[last_call.draw.ending]
      [] OTHER -> ""

TimeAdvice == " Good time management can help reduce stress and improve productivity."

\* common sense kept the text it was handed (it did not put a realistic
\* alternative in its place)
TextKept == ~Contains(last_call.result.text, "That doesn't seem physically possible")

\* C23: enhance_ai_response applies empathy, personality, common sense and
\* memory framing in that order, each on the output of the one before: the
\* framing prefix stands first in the text; the empathy phrase is in the text
\* as the personality styled it (lowered when the personality lowers), with
\* the personality's speech pattern before it; and what the personality put
\* after the text stands before what common sense added.  (The override that
\* comes last is C24's.)
C23_StagesInFixedOrder ==
    (last_call.kind = "enhance" /\ ~last_call.result.raised /\ ~last_call.result.personalized) =>
        LET text    == last_call.result.text
            flair   == last_call.draw.flair
            pattern == Styled(speech_patterns[current_personality][flair])
            phrase  == Styled(EmpathyPhrase)
        IN  /\ last_call.result.framed => StartsWith(text, FramePrefix)
            /\ (last_call.result.empathy /\ TextKept) =>
                   /\ Contains(text, phrase)
                   /\ Lowered => ~Contains(text, EmpathyPhrase)
                   /\ flair > 0 => /\ Contains(text, pattern)
                                   /\ FindFirst(text, pattern) < FindFirst(text, phrase)
            /\ (last_call.result.checked /\ TextKept /\ PersonalityAddition # ""
                  /\ Contains(text, TimeAdvice)) =>
                   /\ Contains(text, PersonalityAddition)
                   /\ FindFirst(text, PersonalityAddition) < FindFirst(text, TimeAdvice)

\* an enhancement in which empathy, a lowering personality with its speech
\* pattern, common sense and the framing all acted
C23_Witness ==
    /\ last_call.kind = "enhance"
    /\ last_call.result.empathy /\ last_call.result.checked /\ last_call.result.framed
    /\ ~last_call.result.personalized
    /\ last_call.draw.flair > 0 /\ Lowered /\ PersonalityAddition # ""
    /\ Contains(last_call.result.text, TimeAdvice)

\* what get_personalized_response returned to the last call
PersonalizedForLastCall == get_personalized_response(learning_system, last_call.query)

\* C24: when get_personalized_response returns a text strictly shorter than
\* the response of the earlier stages, the text enhance_ai_response returns
\* is exactly that text, stripped; when it returns None or a text that is
\* not shorter, the response of the earlier stages, stripped, is returned.
C24_ShorterPersonalizedReplaces ==
    (last_call.kind = "enhance" /\ ~last_call.result.raised) =>
        IF /\ ~PersonalizedForLastCall.none
           /\ Len(PersonalizedForLastCall.text) < Len(last_call.result.staged)
        THEN last_call.result.text = Strip(PersonalizedForLastCall.text)
        ELSE last_call.result.text = Strip(last_call.result.staged)

\* a shorter personalized text took the place of a response that empathy
\* and the framing had both prefixed
C24_Witness ==
    /\ last_call.kind = "enhance"
    /\ last_call.result.empathy /\ last_call.result.framed
    /\ ~PersonalizedForLastCall.none
    /\ Len(PersonalizedForLastCall.text) < Len(last_call.result.staged)
    /\ last_call.result.text = PersonalizedForLastCall.text
    /\ ~StartsWith(last_call.result.text, FramePrefix)

\* a personalized text that is not shorter is passed over
C24_NotShorterIsPassedOver ==
    /\ last_call.kind = "enhance"
    /\ ~PersonalizedForLastCall.none
    /\ Len(PersonalizedForLastCall.text) >= Len(last_call.result.staged)
    /\ last_call.result.text = Strip(last_call.result.staged)

\* the memory context get_relevant_context gives the query of the last call
ContextForLastCall == get_relevant_context(session_memory, long_term_memory, last_call.query)

\* the query of the last call holds one of the memory triggers
QueryHasTrigger == ContainsAny(Lower(last_call.query), memory_triggers)

\* C25, as stated: whenever the query holds a memory trigger the text of the
\* earlier stages is prefixed with "Based on our conversation, ", in every
\* memory state.
C25_TriggerAlwaysFrames ==
    (last_call.kind = "enhance" /\ ~last_call.result.raised
       /\ QueryHasTrigger) =>
        StartsWith(last_call.result.staged, FramePrefix)

\* C25, amended: whenever the query holds a memory trigger, the text of the
\* earlier stages is prefixed with "Based on our conversation, " if the
\* memory context of the query is not empty (the session buffer holds a turn,
\* or a name or a location is known), and is left without the prefix if it
\* is empty.
C25_TriggerFramesWhenContextNotEmpty ==
    (last_call.kind = "enhance" /\ ~last_call.result.raised
       /\ QueryHasTrigger) =>
        (StartsWith(last_call.result.staged, FramePrefix) <=> ContextForLastCall # "")

\* a query with a trigger framed on the strength of a known name alone
C25_Witness ==
    /\ last_call.kind = "enhance"
    /\ QueryHasTrigger
    /\ session_memory = <<>> /\ "name" \in DOMAIN long_term_memory.user_info
    /\ StartsWith(last_call.result.staged, FramePrefix)
    /\ StartsWith(last_call.result.text, FramePrefix)

\* a query with a trigger left unframed: nothing in the session buffer, no
\* user info
C25_UnframedOnEmptyMemory ==
    /\ last_call.kind = "enhance" /\ ~last_call.result.raised
    /\ QueryHasTrigger
    /\ session_memory = <<>> /\ DOMAIN long_term_memory.user_info = {}
    /\ ~StartsWith(last_call.result.staged, FramePrefix)

(***************************************************************************)
(* The empathy step on its own: enhance_ai_response on queries with no     *)
(* emotion keyword, and with keywords of the sad and confused lists among  *)
(* few and among many words.                                               *)
(***************************************************************************)
EmpathyQueries ==
    { "hello", "i am sad", "what a sad day", "so sad and upset, what now",
      "i am sad that the bus left me at the stop",
      "i am sad that the red bus left me at the stop" }

EmpathyRaws == { "It is late." }

EmpathyDraws ==
    [empathy : {1, 2, 3}, flair : {0, 3}, extra : {0, 2}, ending : {1},
     hour : {15}, month : {1}]

EmpathyNext ==
    \E q \in EmpathyQueries, r \in EmpathyRaws, d \in EmpathyDraws : EnhanceCall(q, r, d)

SpecEmpathy == EnhanceInit /\ [][EmpathyNext]_vars

\* the keyword count of the emotion numbered i in the query of the last call
ScoreOf(i) == KeywordScore(Lower(last_call.query), emotion_keywords[i].keywords)

\* the highest keyword count, 0 when the query holds no keyword
TopScore ==
    CHOOSE s \in 0..11 : /\ \A i \in 1..Len(emotion_keywords) : ScoreOf(i) <= s
                         /\ s > 0 => \E i \in 1..Len(emotion_keywords) : ScoreOf(i) = s

WordCount == Len(SplitWords(last_call.query))

\* min(1.0, score / word_count * 10) > 0.85 for the top score
AboveThreshold == TopScore * 10 * 100 > 85 * WordCount

\* the fixed phrases of every emotion
AllPhrases ==
    { empathetic_responses[e][k] : e \in DOMAIN empathetic_responses, k \in 1..3 }

\* the fixed phrases, as the personality of the last call styled them, that
\* stand in the text of the stages before the override
PhrasesIn(text) == { p \in AllPhrases : Contains(text, Styled(p)) }

\* C32: an empathetic phrase is put before the raw response exactly when the
\* confidence of detect_emotion is above 0.85, the confidence being
\* min(1.0, score / word_count * 10) for the top-scoring category; a query
\* with no emotion keyword gives (neutral, 0.5) and gets no phrase; the
\* phrase is one of the fixed phrases of the detected label.
C32_EmpathyOnlyAboveThreshold ==
    (last_call.kind = "enhance" /\ ~last_call.result.raised) =>
        LET felt   == detect_emotion(last_call.query)
            staged == last_call.result.staged
        IN  /\ IF TopScore = 0
               THEN felt = [emotion |-> "neutral", confidence |-> Fraction(1, 2)]
               ELSE /\ felt.emotion \in DOMAIN empathetic_responses
                    /\ \E i \in 1..Len(emotion_keywords) :
                           /\ emotion_keywords[i].emotion = felt.emotion
                           /\ ScoreOf(i) = TopScore
                    /\ felt.confidence = IF TopScore * 10 >= WordCount
                                         THEN Fraction(1, 1)
                                         ELSE Fraction(TopScore * 10, WordCount)
            /\ IF AboveThreshold
               THEN /\ TopScore > 0
                    /\ PhrasesIn(staged) = { EmpathyPhrase }
                    /\ \E k \in 1..3 : EmpathyPhrase = empathetic_responses[felt.emotion][k]
                    /\ Contains(staged, Styled(EmpathyPhrase \o " " \o last_call.raw))
                    /\ (current_personality = "friendly" /\ last_call.draw.flair = 0
                          /\ ~last_call.result.checked /\ ~last_call.result.framed) =>
                           staged = EmpathyPhrase \o " " \o last_call.raw
               ELSE /\ PhrasesIn(staged) = {}
                    /\ (current_personality = "friendly" /\ last_call.draw.flair = 0
                          /\ ~last_call.result.checked /\ ~last_call.result.framed) =>
                           staged = last_call.raw

\* one keyword among eleven words (0.909): the phrase stands before the raw
\* response
C32_Witness ==
    /\ last_call.kind = "enhance"
    /\ last_call.query = "i am sad that the bus left me at the stop"
    /\ current_personality = "friendly" /\ last_call.draw.flair = 0
    /\ last_call.draw.empathy = 3
    /\ last_call.result.staged
          = "I understand you're feeling sad. Sometimes talking helps. It is late."

\* one keyword among twelve words (0.833): a detected emotion and no phrase
C32_WeakEmotionNoPhrase ==
    /\ last_call.kind = "enhance"
    /\ last_call.query = "i am sad that the red bus left me at the stop"
    /\ detect_emotion(last_call.query).emotion = "sad"
    /\ ~last_call.result.empathy
    /\ PhrasesIn(last_call.result.staged) = {}

(***************************************************************************)
(* The assistant as a whole: smart_response turn by turn, one step per     *)
(* collaborator call, with the background tasks of earlier turns running   *)
(* in between.                                                             *)
(***************************************************************************)
MaxTurns   == 2
MaxBacklog == 0

TurnQueries ==
    { "hello", "latest news today", "Thanks, my name is Sam",
      "remember the gold rate near me pincode 500001" }

\* how long a collaborator call of a turn takes, in whole seconds
TurnSecs == { 0 }

\* what the search client does in a turn
TurnSearchOutcomes ==
    { o \in SearchOutcomes : o.kind \in {"found", "no_results", "empty", "error_text", "raises"} }

\* what the writes of the background tasks do: the knowledge base and the
\* learned data are written, the long-term document is written or cut short
FileOutcomes == { "ok" }

TurnSaveOutcomes == { "ok", "write_failed" }

\* what the random draws and the clock of one enhancement can be
Draws ==
    [empathy : {2}, flair : {0, 3}, extra : {0, 2}, ending : {0},
     hour : {15}, month : {1}]

\* the assistant was built with every component, or HumanVoice raised and
\* _initialize_ai_components left them all unset
Init ==
    /\ now = 0 /\ calls = 0
    /\ ClsInit
    /\ session_memory = <<>> /\ session_log = <<>>
    /\ LtmConstructed /\ CacheConstructed /\ TurnConstructed
    /\ current_personality = "friendly"
    /\ components_ok \in BOOLEAN

\* the search text that only empty text sends back to the direct path
search_failed_when_empty(search_results) == search_results = ""

\* a test that sends no search text back to the direct path
search_never_failed(search_results) == FALSE

\* the test of _handle_search_response: the search text is empty or error-marked
search_failed(search_results) ==
    search_results = "" \/ Contains(Lower(search_results), "error")

\* smart_response begins: needs_search routes the query.  At most `backlog`
\* background tasks of earlier turns are still outstanding, and fewer than
\* `most` turns were begun.
BeginTurnWithin(query, backlog, most) ==
    /\ pc = "idle"
    /\ calls < most
    /\ Cardinality(pending) + Cardinality(running) <= backlog
    /\ calls' = calls + 1
    /\ IF needs_search(query)
       THEN \E loc \in { enhance_query_with_location(query) } :
               /\ turn' = [NoTurn EXCEPT !.query = query, !.route = "search", !.path = "search",
                                         !.enhanced_query = loc.query,
                                         !.location_info = loc.location_info,
                                         !.stages = <<"CLASSIFY", "SEARCH_PATH">>]
               /\ pc' = "search"
       ELSE /\ turn' = [NoTurn EXCEPT !.query = query, !.route = "direct", !.path = "direct",
                                       !.stages = <<"CLASSIFY", "DIRECT_PATH">>]
            /\ pc' = "backend"
    /\ UNCHANGED <<running, now, cls_vars, sess_vars, ltm_vars, cache_vars, pers_vars,
                   returned, conversation_context, conversation_memory, knowledge,
                   knowledge_file, learning_system, learning_files,
                   common_sense_memory, pending>>

BeginTurn(query, backlog) == BeginTurnWithin(query, backlog, MaxTurns)

StartTurn(query) == BeginTurn(query, MaxBacklog)

\* _handle_search_response up to the backend call: search_web, then the
\* search prompt, or the direct path when the text is empty or error-marked
Search(outcome, secs) ==
    /\ pc = "search"
    /\ \E res \in { search_web(search_cache, performance_stats, components_ok,
                                 turn.enhanced_query, outcome, secs, now) } :
           /\ search_cache' = res.search_cache
           /\ performance_stats' = res.performance_stats
           /\ turn' = IF search_failed(res.text)
                      THEN [turn EXCEPT !.search_results = res.text, !.fell_back = TRUE,
                                        !.path = "direct",
                                        !.stages = Append(turn.stages, "DIRECT_PATH")]
                      ELSE [turn EXCEPT !.search_results = res.text,
                                        !.prompt = _create_search_prompt(turn.query, turn.location_info),
                                        !.context = Prefix(res.text, SearchContextLimit)]
    /\ pc' = "backend"
    /\ now' = now + secs
    /\ UNCHANGED <<running, calls, cls_vars, sess_vars, ltm_vars, pers_vars, response_cache,
                   last_cache_clear, last_call, prev_call, returned, conversation_context, conversation_memory,
                   knowledge, knowledge_file, learning_system, learning_files,
                   common_sense_memory, pending>>

\* the prompt of _handle_direct_response with the memory context in front of
\* every query, trigger or not
DirectPrompt_any_query(query) ==
    LET memory_context == get_relevant_context(session_memory, long_term_memory, query)
    IN  IF memory_context # ""
        THEN "Conversation context: " \o memory_context \o "\nCurrent question: " \o query
        ELSE query

\* the prompt _handle_direct_response builds from the memory context
DirectPrompt(query) ==
    LET memory_context == get_relevant_context(session_memory, long_term_memory, query)
    IN  IF memory_context # "" /\ _should_add_memory_context(query)
        THEN "Conversation context: " \o memory_context \o "\nCurrent question: " \o query
        ELSE query

\* the direct handler without the components: get_relevant_context raises,
\* smart_response catches and returns the fallback for the query
DirectRaises ==
    /\ pc = "backend"
    /\ turn.path = "direct"
    /\ ~components_ok
    /\ returned' = [NoResult EXCEPT !.turn = calls, !.query = turn.query,
                                    !.text = _get_fallback_response(turn.query),
                                    !.raised = TRUE, !.route = turn.route,
                                    !.path = turn.path,
                                    !.fell_back = turn.fell_back,
                                    !.search_results = turn.search_results,
                                    !.stages = Append(turn.stages, "RETURN")]
    /\ pc' = "idle"
    /\ turn' = NoTurn
    /\ UNCHANGED <<running, now, calls, cls_vars, sess_vars, ltm_vars, cache_vars, pers_vars,
                   conversation_context, conversation_memory, knowledge, knowledge_file,
                   learning_system, learning_files, common_sense_memory, pending>>

\* the backend call of either handler: get_ai_response on the search prompt
\* with the search text, or on the direct prompt with no context
Backend(outcome, secs) ==
    /\ pc = "backend"
    /\ turn.path = "search" \/ components_ok
    /\ \E prompt \in { IF turn.path = "direct" THEN DirectPrompt(turn.query) ELSE turn.prompt } :
       \E res \in { get_ai_response(response_cache, performance_stats, current_personality,
                                    components_ok, prompt, turn.context, outcome, secs, now) } :
           /\ response_cache' = res.response_cache
           /\ performance_stats' = res.performance_stats
           /\ turn' = [turn EXCEPT !.prompt = prompt, !.raw_response = res.text,
                                   !.cache_hit = res.hit, !.backend = res.backend]
    /\ pc' = "enhance"
    /\ now' = now + secs
    /\ UNCHANGED <<running, calls, cls_vars, sess_vars, ltm_vars, pers_vars, search_cache,
                   last_cache_clear, last_call, prev_call, returned, conversation_context, conversation_memory,
                   knowledge, knowledge_file, learning_system, learning_files,
                   common_sense_memory, pending>>

\* the rest of the handler: enhance_ai_response, _apply_translation,
\* save_enhanced_memory, _update_conversation_context, and the return
Enhance(draw) ==
    /\ pc = "enhance"
    /\ \E e \in { enhance_ai_response(components_ok, current_personality, session_memory,
                                       long_term_memory, learning_system, common_sense_memory,
                                       turn.query, turn.raw_response, draw) } :
       \E response \in { _apply_translation(e.text) } :
           /\ common_sense_memory' = e.cs_memory
           /\ pending' = pending \cup save_enhanced_memory(components_ok, calls, turn.query, response)
           /\ conversation_context' =
                  _update_conversation_context(conversation_context, turn.query, response)
           /\ returned' = [turn |-> calls, query |-> turn.query, text |-> response,
                           raised |-> FALSE, route |-> turn.route, path |-> turn.path,
                           fell_back |-> turn.fell_back,
                           search_results |-> turn.search_results, prompt |-> turn.prompt,
                           context |-> turn.context, raw_response |-> turn.raw_response,
                           cache_hit |-> turn.cache_hit, backend |-> turn.backend,
                           enhanced |-> e,
                           stages |-> turn.stages
                                        \o <<"ENHANCE", "TRANSLATE", "PERSIST", "RETURN">>]
    /\ pc' = "idle"
    /\ turn' = NoTurn
    /\ UNCHANGED <<running, now, calls, cls_vars, sess_vars, ltm_vars, cache_vars, pers_vars,
                   conversation_memory, knowledge, knowledge_file, learning_system,
                   learning_files>>

\* what the save_to_memory task of an earlier turn does
SaveToMemoryTask(t) ==
    /\ conversation_memory' = save_to_memory(conversation_memory, t.query, t.response, now)
    /\ UNCHANGED <<now, calls, cls_vars, sess_vars, ltm_vars, cache_vars, pers_vars,
                   pc, turn, returned, conversation_context, knowledge, knowledge_file,
                   learning_system, learning_files, common_sense_memory>>

\* what a save_knowledge task does; the write to disk succeeds or fails
SaveKnowledgeTask(t, outcome) ==
    /\ knowledge' = save_knowledge(knowledge, t.query, t.response, now)
    /\ knowledge_file' = IF outcome = "ok" THEN knowledge' ELSE knowledge_file
    /\ UNCHANGED <<now, calls, cls_vars, sess_vars, ltm_vars, cache_vars, pers_vars,
                   pc, turn, returned, conversation_context, conversation_memory,
                   learning_system, learning_files, common_sense_memory>>

\* what an add_to_session_memory task does
AddToSessionTask(t) ==
    /\ session_memory' = add_to_session_memory(session_memory, t.query, t.response, now)
    /\ session_log' = Append(session_log, LoggedTurn(t.query, t.response))
    /\ UNCHANGED <<now, calls, cls_vars, ltm_vars, cache_vars, pers_vars, pc, turn,
                   returned, conversation_context, conversation_memory, knowledge,
                   knowledge_file, learning_system, learning_files, common_sense_memory>>

\* what an add_to_long_term_memory task does, save_memory included
AddToLongTermTask(t, outcome) ==
    /\ \E res \in { add_to_long_term_memory(long_term_memory, t.query, t.response, now) } :
           /\ long_term_memory' = res.ltm
           /\ ltm_raised' = res.raised
           /\ memory_file' = IF res.raised THEN memory_file
                             ELSE save_memory(memory_file, res.ltm, outcome)
    /\ UNCHANGED <<now, calls, cls_vars, sess_vars, cache_vars, pers_vars, pc, turn,
                   returned, conversation_context, conversation_memory, knowledge,
                   knowledge_file, learning_system, learning_files, common_sense_memory>>

\* what a learn_from_conversation task does, save_learned_data included; the
\* task is submitted with the query and the response and no feedback
LearnTask(t, outcome) ==
    /\ \E res \in { learn_from_conversation(learning_system, t.query, t.response, None) } :
           /\ learning_system' = res.learning
           /\ learning_files' = IF res.raised THEN learning_files
                                ELSE save_learned_data(learning_files, res.learning, outcome)
    /\ UNCHANGED <<now, calls, cls_vars, sess_vars, ltm_vars, cache_vars, pers_vars,
                   pc, turn, returned, conversation_context, conversation_memory,
                   knowledge, knowledge_file, common_sense_memory>>

\* a worker runs the save_to_memory task of an earlier turn from start to end
RunSaveToMemory ==
    \E t \in pending :
        /\ t.task = "save_to_memory"
        /\ pending' = pending \ {t} /\ UNCHANGED running
        /\ SaveToMemoryTask(t)

\* a worker runs a save_knowledge task from start to end
RunSaveKnowledge(outcome) ==
    \E t \in pending :
        /\ t.task = "save_knowledge"
        /\ pending' = pending \ {t} /\ UNCHANGED running
        /\ SaveKnowledgeTask(t, outcome)

\* a worker runs an add_to_session_memory task from start to end
RunAddToSession ==
    \E t \in pending :
        /\ t.task = "add_to_session_memory"
        /\ pending' = pending \ {t} /\ UNCHANGED running
        /\ AddToSessionTask(t)

\* a worker runs an add_to_long_term_memory task from start to end
RunAddToLongTerm(outcome) ==
    \E t \in pending :
        /\ t.task = "add_to_long_term_memory"
        /\ pending' = pending \ {t} /\ UNCHANGED running
        /\ AddToLongTermTask(t, outcome)

\* a worker runs a learn_from_conversation task from start to end
RunLearn(outcome) ==
    \E t \in pending :
        /\ t.task = "learn_from_conversation"
        /\ pending' = pending \ {t} /\ UNCHANGED running
        /\ LearnTask(t, outcome)

Next ==
    \/ \E q \in TurnQueries : StartTurn(q)
    \/ \E o \in TurnSearchOutcomes, secs \in TurnSecs : Search(o, secs)
    \/ DirectRaises
    \/ \E o \in BackendOutcomes, secs \in TurnSecs : Backend(o, secs)
    \/ \E d \in Draws : Enhance(d)
    \/ RunSaveToMemory
    \/ \E o \in FileOutcomes : RunSaveKnowledge(o)
    \/ RunAddToSession
    \/ \E o \in TurnSaveOutcomes : RunAddToLongTerm(o)
    \/ \E o \in FileOutcomes : RunLearn(o)

Spec == Init /\ [][Next]_vars

\* C1: whenever a smart_response call is over it has returned, and what it
\* returned is a non-empty text, whatever the backend, the search client and
\* the background writes did.
C1_TurnReturnsText ==
    (pc = "idle" /\ calls > 0) => (returned.turn = calls /\ returned.text # "")

\* a turn whose search came back error-marked or empty and whose backend call
\* then failed has returned the try-again text
C1_Witness ==
    /\ pc = "idle"
    /\ returned.turn > 0
    /\ returned.fell_back
    /\ returned.raw_response = generic_fallback
    /\ returned.text # ""

\* what _handle_direct_response sends to get_ai_response for the query: the
\* query itself, or the query framed with the memory context
IsDirectPrompt(prompt, query) ==
    \/ prompt = query
    \/ /\ StartsWith(prompt, "Conversation context: ")
       /\ EndsWith(prompt, "\nCurrent question: " \o query)

\* the last turn was routed to the search path and the search text came back
\* empty or error-marked
SearchCameBackBad ==
    /\ returned.turn > 0
    /\ returned.route = "search"
    /\ (returned.search_results = "" \/ Contains(Lower(returned.search_results), "error"))

\* C3: when a query is routed to the search path and the search text comes
\* back empty or error-marked, the turn falls back to the direct path:
\* get_ai_response gets the direct prompt and no search context, and the turn
\* still returns a non-empty text.
C3_SearchFailureFallsBack ==
    SearchCameBackBad =>
        /\ returned.fell_back
        /\ returned.path = "direct"
        /\ returned.context = ""
        /\ returned.text # ""
        /\ returned.raised \/ IsDirectPrompt(returned.prompt, returned.query)
        /\ returned.backend.none \/ ~Contains(returned.backend.text, "Search error")

\* an error-marked search text sent the turn to the direct path, the backend
\* was called on the bare query and the turn returned a text
C3_Witness ==
    /\ SearchCameBackBad
    /\ returned.search_results = "Search error: the service is unavailable"
    /\ returned.fell_back
    /\ ~returned.cache_hit
    /\ ~returned.backend.none
    /\ returned.context = ""
    /\ returned.text # ""

(***************************************************************************)
(* The states of a turn.  A call on the backend, on the search client or   *)
(* on a component returns or raises, so a step of the handler that can be  *)
(* taken is taken in the end; the background tasks have no such guarantee. *)
(***************************************************************************)
\* the conditions under which Search, DirectRaises, Backend and Enhance can
\* be taken: one of them holds in every state of a turn under way
HandlerCanStep ==
    \/ pc = "search"
    \/ pc = "backend" /\ turn.path = "direct" /\ ~components_ok
    \/ pc = "backend" /\ (turn.path = "search" \/ components_ok)
    \/ pc = "enhance"

\* a step of the handler seen from outside: the turn under way moves on.  The
\* steps of Next that do so are Search, DirectRaises, Backend and Enhance.
HandlerMoves ==
    /\ pc # "idle"
    /\ pc' \in {"backend", "enhance", "idle"}
    /\ pc' # pc

FairSpec == Spec /\ WF_pc(HandlerMoves)

AfterPath == << "ENHANCE", "TRANSLATE", "PERSIST", "RETURN" >>

\* the runs of a turn through every state
CompleteRuns ==
    { <<"CLASSIFY", "SEARCH_PATH">> \o AfterPath,
      <<"CLASSIFY", "DIRECT_PATH">> \o AfterPath,
      <<"CLASSIFY", "SEARCH_PATH", "DIRECT_PATH">> \o AfterPath }

\* the runs of a turn whose direct handler raised
CutShortRuns ==
    { <<"CLASSIFY", "DIRECT_PATH", "RETURN">>,
      <<"CLASSIFY", "SEARCH_PATH", "DIRECT_PATH", "RETURN">> }

\* the last turn went from the search path over to the direct path
HandedOver ==
    /\ Len(returned.stages) > 2
    /\ returned.stages[2] = "SEARCH_PATH"
    /\ returned.stages[3] = "DIRECT_PATH"

TurnOver == pc = "idle" /\ returned.turn > 0

\* C21 as stated: every turn goes through CLASSIFY, then SEARCH_PATH or
\* DIRECT_PATH (SEARCH_PATH handing over to DIRECT_PATH once, on a failed
\* search), then ENHANCE, TRANSLATE, PERSIST and RETURN in that order, and
\* every started turn eventually reaches RETURN.
C21_EveryTurnRunsAllStates ==
    /\ [](TurnOver => /\ returned.stages \in CompleteRuns
                      /\ HandedOver <=> SearchCameBackBad)
    /\ (pc # "idle") ~> (pc = "idle")

\* What does hold of C21: every turn whose handler does not raise goes through CLASSIFY, then
\* SEARCH_PATH or DIRECT_PATH (SEARCH_PATH handing over to DIRECT_PATH once,
\* on a failed search), then ENHANCE, TRANSLATE, PERSIST and RETURN in that
\* order; a turn whose direct handler raises, which it does when the
\* components were not built, goes from DIRECT_PATH straight to RETURN; and
\* every started turn eventually reaches RETURN.
C21_TurnRunsAllStatesUnlessHandlerRaises ==
    /\ [](TurnOver => /\ IF returned.raised
                         THEN returned.stages \in CutShortRuns /\ ~components_ok
                         ELSE returned.stages \in CompleteRuns
                      /\ HandedOver <=> SearchCameBackBad)
    /\ [](pc # "idle" => HandlerCanStep)
    /\ (pc # "idle") ~> (pc = "idle")

\* a turn on the search path whose search failed was handed over to the
\* direct path and went on through every later state
C21_Witness ==
    /\ TurnOver
    /\ ~returned.raised
    /\ returned.stages = <<"CLASSIFY", "SEARCH_PATH", "DIRECT_PATH">> \o AfterPath
    /\ returned.search_results = ""

\* the tasks a step has added to the queue of the worker pool
Submitted == pending' \ pending

\* the step in which a handler runs save_enhanced_memory and returns
PersistStep == pc = "enhance" /\ pc' = "idle"

\* the five writes of the turn that has just returned, one task each
FiveWrites ==
    /\ Cardinality(Submitted) = 5
    /\ \A name \in { "save_to_memory", "save_knowledge", "add_to_session_memory",
                     "add_to_long_term_memory", "learn_from_conversation" } :
           \E t \in Submitted :
               /\ t.task = name
               /\ t.turn = returned'.turn
               /\ t.query = returned'.query
               /\ t.response = returned'.text

\* the stores the five writes change are as they were: none of them has run
NothingWritten ==
    UNCHANGED <<conversation_memory, knowledge, knowledge_file, session_memory,
                long_term_memory, memory_file, learning_system, learning_files>>

\* C22: each turn that reaches PERSIST submits exactly five background write
\* tasks (conversation memory, knowledge file, session buffer, long-term
\* store, learning store) exactly once, also when the search path fell back
\* to the direct path, and smart_response returns without waiting for any of
\* them: when it returns, the five are queued and none has written anything.
\* No other step of a turn submits a task.
C22_PersistSubmitsFiveWrites ==
    [][ /\ PersistStep => (FiveWrites /\ pending \subseteq pending' /\ NothingWritten)
        /\ ~PersistStep => Submitted = {} ]_vars

\* What does hold of C22: the same, of an assistant whose components were built.
C22_BuiltAssistantSubmitsFiveWrites ==
    [][ components_ok =>
          /\ PersistStep => (FiveWrites /\ pending \subseteq pending' /\ NothingWritten)
          /\ ~PersistStep => Submitted = {} ]_vars

\* a turn handed over from the search path to the direct path has returned
\* and its five writes are queued
C22_FiveQueuedAfterHandOver ==
    /\ TurnOver /\ returned.fell_back /\ components_ok
    /\ Cardinality({ t \in pending : t.turn = returned.turn }) = 5

\* the backend call of a turn on the direct path has just been made
DirectCallMade == pc = "enhance" /\ turn.path = "direct"

\* C26: on the direct path the memory context stands in front of the prompt
\* only if the query holds a memory trigger; for a query without one the
\* prompt is the bare query, and the bare query is what the backend is sent
\* when it is called, whatever the session buffer and the user info hold.
C26_MemoryContextOnlyOnTrigger ==
    DirectCallMade =>
        /\ StartsWith(turn.prompt, "Conversation context: ") =>
               ContainsAny(Lower(turn.query), memory_triggers)
        /\ ~ContainsAny(Lower(turn.query), memory_triggers) =>
               /\ turn.prompt = turn.query
               /\ turn.backend \in {None, Some(turn.query)}

\* a query without a trigger sent bare to the backend by an assistant that
\* remembers a turn and knows the user's name
C26_Witness ==
    /\ DirectCallMade
    /\ ~ContainsAny(Lower(turn.query), memory_triggers)
    /\ session_memory # <<>> /\ "name" \in DOMAIN long_term_memory.user_info
    /\ turn.backend = Some(turn.query)

\* a query with a trigger sent to the backend behind the memory context
C26_ContextSentOnTrigger ==
    /\ DirectCallMade
    /\ ContainsAny(Lower(turn.query), memory_triggers)
    /\ StartsWith(turn.prompt, "Conversation context: Recent conversation:")
    /\ turn.backend = Some(turn.prompt)

\* the text search_web returned begins with the marker of found results
FoundMarker(search_results) == StartsWith(search_results, "Here's what I found about '")

\* C27: whenever the search client raised or its text came back without the
\* marker of found results, the turn goes on along the direct path, and the
\* backend is not sent a prompt grounded on that text.
C27_FailedSearchFallsBack ==
    (pc \in {"backend", "enhance"} /\ turn.route = "search"
       /\ ~FoundMarker(turn.search_results)) =>
        /\ turn.path = "direct"
        /\ turn.context = ""
        /\ turn.backend.none \/ ~StartsWith(turn.backend.text, "Based on this information: ")

\* What does hold of C27: the turn goes on along the direct path exactly when
\* the text is empty or holds "error"; the text search_web makes up when the
\* client raises, and the client's own text for no results, hold neither.
C27_FallsBackOnlyOnErrorWord ==
    (pc \in {"backend", "enhance"} /\ turn.route = "search") =>
        (turn.path = "direct" <=>
            (turn.search_results = "" \/ Contains(Lower(turn.search_results), "error")))

\* the client raised and the backend was sent a prompt grounded on the
\* apology search_web returned
C27_ApologySentAsSearchResult ==
    /\ pc = "enhance" /\ turn.route = "search" /\ turn.path = "search"
    /\ StartsWith(turn.search_results, "I couldn't search for '")
    /\ ~turn.backend.none
    /\ StartsWith(turn.backend.text, "Based on this information: I couldn't search for '")

(***************************************************************************)
(* A long conversation: the turns as above, the first ones taken from a    *)
(* script, each begun when the writes of the one before are done, until    *)
(* the conversation-context buffer has overflowed.                         *)
(***************************************************************************)
MaxLongRunTurns == 22
LongRunFree     == 1

\* the queries the scripted turns cycle through
LongRunScript ==
    << "remember the gold rate near me pincode 500001", "hello", "Thanks, my name is Sam" >>

LongRunQueries == { "hello", "remember the gold rate near me pincode 500001" }

LongRunSearchOutcomes == { o \in SearchOutcomes : o.kind \in {"found", "raises"} }

LongRunBackendOutcomes == { o \in BackendOutcomes : ~o.raises /\ Strip(o.content) # "" }

LongRunDraws == { d \in Draws : d.flair = 0 /\ d.extra = 0 }

\* a scripted turn begins
StartScripted ==
    /\ calls < MaxLongRunTurns - LongRunFree
    /\ BeginTurnWithin(LongRunScript[(calls % Len(LongRunScript)) + 1], 0, MaxLongRunTurns)

\* a turn with a query chosen freely begins, the script being over
StartFree(query) ==
    /\ calls >= MaxLongRunTurns - LongRunFree
    /\ BeginTurnWithin(query, 0, MaxLongRunTurns)

LongRunNext ==
    \/ StartScripted
    \/ \E q \in LongRunQueries : StartFree(q)
    \/ \E o \in LongRunSearchOutcomes, secs \in TurnSecs : Search(o, secs)
    \/ DirectRaises
    \/ \E o \in LongRunBackendOutcomes, secs \in TurnSecs : Backend(o, secs)
    \/ \E d \in LongRunDraws : Enhance(d)
    \/ RunSaveToMemory
    \/ \E o \in FileOutcomes : RunSaveKnowledge(o)
    \/ RunAddToSession
    \/ \E o \in FileOutcomes : RunAddToLongTerm(o)
    \/ \E o \in FileOutcomes : RunLearn(o)

SpecLongRun == Init /\ [][LongRunNext]_vars

\* the line of the turn that returns in this step
ReturnedLine == "Q: " \o returned'.query \o " A: " \o returned'.text

\* C30: the conversation-context buffer never holds more than 20 lines, each
\* of the form "Q: ... A: ..."; every turn that reaches its persisting step
\* appends exactly one line, that of the turn; the append made on a buffer
\* of 20 lines leaves the 15 most recent lines, in order; no other step
\* touches the buffer.
C30_ContextBufferRolls ==
    /\ [](/\ Len(conversation_context) <= ConversationContextCap
          /\ \A i \in 1..Len(conversation_context) :
                 /\ StartsWith(conversation_context[i], "Q: ")
                 /\ Contains(conversation_context[i], " A: "))
    /\ [][ IF PersistStep
           THEN IF Len(conversation_context) = ConversationContextCap
                THEN conversation_context'
                         = SubSeq(conversation_context, 7, 20) \o << ReturnedLine >>
                ELSE conversation_context' = conversation_context \o << ReturnedLine >>
           ELSE conversation_context' = conversation_context ]_vars

\* the 21st line has just been appended: 15 lines are left, the last one the
\* line of the turn that returned, the first two those of the 7th and the
\* 8th turn of the script
C30_Witness ==
    /\ pc = "idle" /\ returned.turn = 21 /\ pending # {}
    /\ Len(conversation_context) = ConversationContextKeep
    /\ conversation_context[ConversationContextKeep]
           = "Q: " \o returned.query \o " A: " \o returned.text
    /\ StartsWith(conversation_context[1], "Q: " \o LongRunScript[1] \o " A: ")
    /\ StartsWith(conversation_context[2], "Q: " \o LongRunScript[2] \o " A: ")

\* a turn of an assistant built without its components appended its line
\* although only two of its writes were queued
C30_LineAppendedWithoutComponents ==
    /\ ~components_ok /\ pc = "idle" /\ returned.turn > 0 /\ ~returned.raised
    /\ Cardinality(pending) = 2
    /\ conversation_context # <<>>
    /\ conversation_context[Len(conversation_context)]
           = "Q: " \o returned.query \o " A: " \o returned.text

\* C36: in every reachable state cache_hits is at most total_queries, so
\* that the cache hit rate get_performance_stats reports never exceeds 100%,
\* for any sequence of search-path and direct-path turns.
C36_CacheHitsAtMostQueries ==
    performance_stats.cache_hits <= performance_stats.total_queries

\* What does hold of C36: a turn adds at most two hits, one in search_web
\* and one in get_ai_response, and only get_ai_response counts a query.
C36_HitsAtMostTwicePerTurn ==
    /\ performance_stats.cache_hits <= 2 * calls
    /\ performance_stats.total_queries <= calls

\* a conversation is over whose turns hit the caches more often than
\* get_ai_response was called: the rate reported is above 100%
C36_HitRateAbove100 ==
    /\ pc = "idle" /\ pending = {}
    /\ returned.turn = calls
    /\ performance_stats.cache_hits * 100 > 100 * performance_stats.total_queries
    /\ performance_stats.total_queries > 0

(***************************************************************************)
(* Cached answers across turns: the turns as above, with search-path       *)
(* queries that differ after their first words, and a backend whose        *)
(* answer names the prompt and the context it was given.                   *)
(***************************************************************************)
MaxShareTurns == 2

ShareQueries ==
    { "hello", "latest gold rate today in india", "latest gold rate today in mumbai" }

ShareSearchOutcomes == { o \in SearchOutcomes : o.kind = "found" }

ShareDraws == { d \in Draws : d.flair = 0 /\ d.extra = 0 }

\* what the backend answers to a prompt and a context
AnswerTo(prompt, context) == "Answer to [" \o prompt \o "] given [" \o context \o "]"

\* the prompt get_ai_response is about to be called with
PromptOfTurn == IF turn.path = "direct" THEN DirectPrompt(turn.query) ELSE turn.prompt

ShareNext ==
    \/ \E q \in ShareQueries : BeginTurnWithin(q, 0, MaxShareTurns)
    \/ \E o \in ShareSearchOutcomes, secs \in TurnSecs : Search(o, secs)
    \/ DirectRaises
    \/ \E secs \in TurnSecs :
           Backend([raises |-> FALSE, content |-> AnswerTo(PromptOfTurn, turn.context)], secs)
    \/ \E d \in ShareDraws : Enhance(d)
    \/ RunSaveToMemory
    \/ \E o \in FileOutcomes : RunSaveKnowledge(o)
    \/ RunAddToSession
    \/ \E o \in FileOutcomes : RunAddToLongTerm(o)
    \/ \E o \in FileOutcomes : RunLearn(o)

SpecShare == Init /\ [][ShareNext]_vars

C38_HitReturnsEntryOfKey ==
    (returned.turn > 0 /\ returned.cache_hit) =>
        LET key == _generate_cache_key(returned.prompt, returned.context)
        IN  /\ InCache(response_cache, key)
            /\ returned.raw_response = CacheGet(response_cache, key).text

\* the turn that asked about mumbai was handed, from the cache, the answer
\* the backend gave to the prompt about india
C38_AnswerShared ==
    /\ returned.turn = 2 /\ returned.cache_hit /\ returned.path = "search"
    /\ returned.query = "latest gold rate today in mumbai"
    /\ returned.raw_response
          = AnswerTo(_create_search_prompt("latest gold rate today in india", None),
                     search_web(<<>>, InitialStats, TRUE, "latest gold rate today in india",
                                CHOOSE o \in ShareSearchOutcomes : TRUE, 0, 0).text)

(***************************************************************************)
(* The active personality across turns: the turns as above, with           *)
(* set_personality called between them.                                    *)
(***************************************************************************)
MaxSelectTurns == 2

SelectNames == { "wise", "Energetic", "bogus" }

\* set_personality called while no smart_response call is under way; the
\* background writes of the turn before may still be queued
SelectPersonality(name) ==
    /\ pc = "idle"
    /\ \E res \in { set_personality(current_personality, name) } :
           /\ current_personality' = res.current
           /\ last_call' = [kind |-> "set_personality", name |-> name,
                            returned |-> res.returned, before |-> current_personality,
                            turns |-> calls]
    /\ UNCHANGED <<now, calls, prev_call, response_cache, search_cache, last_cache_clear,
                   performance_stats, components_ok, cls_vars, sess_vars, ltm_vars, turn_vars>>

SelectNext ==
    \/ \E name \in SelectNames : SelectPersonality(name)
    \/ \E q \in LongRunQueries : BeginTurnWithin(q, 0, MaxSelectTurns)
    \/ \E o \in LongRunSearchOutcomes, secs \in TurnSecs : Search(o, secs)
    \/ DirectRaises
    \/ \E o \in LongRunBackendOutcomes, secs \in TurnSecs : Backend(o, secs)
    \/ \E d \in LongRunDraws : Enhance(d)
    \/ RunSaveToMemory
    \/ \E o \in FileOutcomes : RunSaveKnowledge(o)
    \/ RunAddToSession
    \/ \E o \in FileOutcomes : RunAddToLongTerm(o)
    \/ \E o \in FileOutcomes : RunLearn(o)

SpecSelect == Init /\ [][SelectNext]_vars

\* a step of a smart_response call or of a background write
TurnOrWriteStep ==
    \/ pc' # pc \/ calls' # calls \/ turn' # turn \/ returned' # returned
    \/ pending' # pending \/ running' # running
    \/ session_memory' # session_memory \/ long_term_memory' # long_term_memory
    \/ learning_system' # learning_system \/ knowledge' # knowledge
    \/ conversation_memory' # conversation_memory
    \/ conversation_context' # conversation_context

\* C34: the active personality is friendly at first and one of the five in
\* every reachable state; it changes only in a set_personality call, which
\* was given a name of the table and makes its lowercase form active; the
\* steps of smart_response turns (the style application among them) and the
\* background writes leave it unchanged.
C34_PersonalityChangesOnlyBySelection ==
    /\ current_personality = "friendly"
    /\ [](current_personality \in Personalities)
    /\ [][ /\ TurnOrWriteStep => current_personality' = current_personality
           /\ current_personality' # current_personality =>
                  /\ last_call' # last_call
                  /\ last_call'.kind = "set_personality"
                  /\ last_call'.before = current_personality
                  /\ last_call'.returned
                  /\ current_personality' = Lower(last_call'.name) ]_vars

\* "wise" was selected after the first turn, and a second turn, styled by it,
\* and all its background writes are over: it is still the active one
C34_Witness ==
    /\ last_call.kind = "set_personality" /\ last_call.name = "wise"
    /\ last_call.turns = 1
    /\ calls = 2 /\ pc = "idle" /\ returned.turn = 2
    /\ pending = {} /\ running = {}
    /\ components_ok
    /\ Len(session_memory) = 2
    /\ current_personality = "wise"

(***************************************************************************)
(* The worker pool: the turns as above, each background task begun by a    *)
(* worker in one step and finished in a later one, with the next turn free *)
(* to start while a task is still outstanding.  A task's writes take       *)
(* effect in its finishing step.                                           *)
(***************************************************************************)
max_workers == 6
WorkerBacklog == 1

WorkerQueries == { "hello", "Thanks, my name is Sam" }

\* the backend is down throughout: every turn ends on the table fallback
WorkerBackendOutcomes == { o \in BackendOutcomes : o.raises }

WorkerDraws == { d \in Draws : d.flair = 0 /\ d.extra = 0 }

WorkersInit ==
    /\ now = 0 /\ calls = 0
    /\ ClsInit
    /\ session_memory = <<>> /\ session_log = <<>>
    /\ LtmConstructed /\ CacheConstructed /\ TurnConstructed
    /\ current_personality = "friendly"
    /\ components_ok = TRUE

\* the executor hands a submitted task to a free worker
BeginTask ==
    \E t \in pending :
        /\ Cardinality(running) < max_workers
        /\ pending' = pending \ {t}
        /\ running' = running \cup {t}
        /\ UNCHANGED <<now, calls, cls_vars, sess_vars, ltm_vars, cache_vars, pers_vars,
                       pc, turn, returned, conversation_context, conversation_memory,
                       knowledge, knowledge_file, learning_system, learning_files,
                       common_sense_memory>>

\* the worker of a save_to_memory task finishes it
FinishSaveToMemory ==
    \E t \in running :
        /\ t.task = "save_to_memory"
        /\ running' = running \ {t} /\ UNCHANGED pending
        /\ SaveToMemoryTask(t)

\* the worker of a save_knowledge task finishes it
FinishSaveKnowledge(outcome) ==
    \E t \in running :
        /\ t.task = "save_knowledge"
        /\ running' = running \ {t} /\ UNCHANGED pending
        /\ SaveKnowledgeTask(t, outcome)

\* the worker of an add_to_session_memory task finishes it
FinishAddToSession ==
    \E t \in running :
        /\ t.task = "add_to_session_memory"
        /\ running' = running \ {t} /\ UNCHANGED pending
        /\ AddToSessionTask(t)

\* the worker of an add_to_long_term_memory task finishes it
FinishAddToLongTerm(outcome) ==
    \E t \in running :
        /\ t.task = "add_to_long_term_memory"
        /\ running' = running \ {t} /\ UNCHANGED pending
        /\ AddToLongTermTask(t, outcome)

\* the worker of a learn_from_conversation task finishes it
FinishLearn(outcome) ==
    \E t \in running :
        /\ t.task = "learn_from_conversation"
        /\ running' = running \ {t} /\ UNCHANGED pending
        /\ LearnTask(t, outcome)

WorkersNext ==
    \/ \E q \in WorkerQueries : BeginTurn(q, WorkerBacklog)
    \/ \E o \in WorkerBackendOutcomes, secs \in TurnSecs : Backend(o, secs)
    \/ \E d \in WorkerDraws : Enhance(d)
    \/ BeginTask
    \/ FinishSaveToMemory
    \/ \E o \in FileOutcomes : FinishSaveKnowledge(o)
    \/ FinishAddToSession
    \/ \E o \in FileOutcomes : FinishAddToLongTerm(o)
    \/ \E o \in FileOutcomes : FinishLearn(o)

SpecWorkers == WorkersInit /\ [][WorkersNext]_vars

\* the store a background task mutates
StoreOf(t) ==
    CASE t.task = "save_to_memory"          -> "conversation_memory"
      [] t.task = "save_knowledge"          -> "knowledge"
      [] t.task = "add_to_session_memory"   -> "session_memory"
      [] t.task = "add_to_long_term_memory" -> "long_term_memory"
      [] t.task = "learn_from_conversation" -> "learning_system"

\* the stores the foreground reads in the step it takes from the given point:
\* the direct handler's get_relevant_context before the backend call, and
\* enhance_ai_response's memory context and personalised reply
ForegroundReads(at) ==
    IF at = "enhance" THEN { "session_memory", "long_term_memory", "learning_system" }
    ELSE IF at = "backend" /\ turn.path = "direct" THEN { "session_memory", "long_term_memory" }
    ELSE {}

\* C13: each shared store is accessed under mutual exclusion: no two
\* background tasks are inside a mutation of the same store at once, and the
\* foreground never reads a store while a background task is inside a
\* mutation of it.
C13_StoresExclusive ==
    /\ [](\A t1, t2 \in running : t1 # t2 => StoreOf(t1) # StoreOf(t2))
    /\ [][ pc' # pc => \A t \in running : StoreOf(t) \notin ForegroundReads(pc) ]_vars

(***************************************************************************)
(* The session buffer under the worker pool: the add_to_session_memory     *)
(* tasks that successive turns submit, each run by a worker statement by   *)
(* statement (the append; the length test and the slice; the assignment),  *)
(* on a buffer that scripted turns have filled.                            *)
(***************************************************************************)
MaxRaceTurns == 3

RaceScript == << "hello", "what is water", "thanks" >>

RaceInit ==
    /\ \E n \in { SessionCap - 1, SessionCap } :
           /\ session_memory = SessionAfter(n)
           /\ session_log = ScriptedLog(n)
    /\ ClsInit /\ LtmConstructed /\ CacheConstructed /\ PersConstructed /\ TurnConstructed
    /\ now = 0 /\ calls = 0

RaceRest ==
    UNCHANGED <<now, cls_vars, ltm_vars, response_cache, search_cache, last_cache_clear,
                performance_stats, pers_vars, pc, turn, returned, conversation_context,
                conversation_memory, knowledge, knowledge_file, learning_system,
                learning_files, common_sense_memory>>

\* the entry a task appends
ItemOf(t) ==
    [user_input |-> t.query, ai_response |-> t.response,
     timestamp |-> now, session_id |-> get_current_session_id(now)]

InBuffer(sm, item) == \E i \in 1..Len(sm) : sm[i] = item

\* save_enhanced_memory of the next turn submits its add_to_session_memory
\* task and does not wait for it
SubmitSessionTask ==
    /\ calls < MaxRaceTurns
    /\ calls' = calls + 1
    /\ pending' = pending \cup
           { t \in save_enhanced_memory(TRUE, calls + 1, RaceScript[calls + 1], "ok") :
                 t.task = "add_to_session_memory" }
    /\ UNCHANGED <<running, sess_vars, last_call, prev_call>>
    /\ RaceRest

\* a worker takes the task and runs self.session_memory.append(memory_item);
\* (history) alone says that no other task was running since
TaskAppends ==
    \E t \in pending :
        /\ Cardinality(running) < max_workers
        /\ pending' = pending \ {t}
        /\ running' = { [r EXCEPT !.alone = FALSE] : r \in running } \cup
                      { [task |-> t.task, turn |-> t.turn, query |-> t.query,
                         response |-> t.response, at |-> "appended", copy |-> <<>>,
                         alone |-> running = {}] }
        /\ session_memory' = Append(session_memory, ItemOf(t))
        /\ session_log' = Append(session_log, LoggedTurn(t.query, t.response))
        /\ UNCHANGED <<calls, last_call, prev_call>>
        /\ RaceRest

\* len(self.session_memory) > 20 holds and the worker evaluates
\* self.session_memory[-20:], a new list
TaskSlices ==
    \E t \in running :
        /\ t.at = "appended"
        /\ Len(session_memory) > SessionCap
        /\ running' = (running \ {t}) \cup
                      { [t EXCEPT !.at = "sliced", !.copy = LastN(session_memory, SessionCap)] }
        /\ UNCHANGED <<calls, pending, sess_vars, last_call, prev_call>>
        /\ RaceRest

\* what the call that is over leaves in last_call
TaskOver(t, sm) ==
    [kind |-> "session_task", turn |-> t.turn, alone |-> t.alone, cut |-> t.at = "sliced",
     present |-> InBuffer(sm, ItemOf(t))]

\* the worker assigns the new list to self.session_memory and the call is over
TaskAssigns ==
    \E t \in running :
        /\ t.at = "sliced"
        /\ session_memory' = t.copy
        /\ running' = running \ {t}
        /\ prev_call' = last_call
        /\ last_call' = TaskOver(t, t.copy)
        /\ UNCHANGED <<calls, pending, session_log>>
        /\ RaceRest

\* len(self.session_memory) > 20 does not hold and the call is over
TaskReturns ==
    \E t \in running :
        /\ t.at = "appended"
        /\ Len(session_memory) <= SessionCap
        /\ running' = running \ {t}
        /\ prev_call' = last_call
        /\ last_call' = TaskOver(t, session_memory)
        /\ UNCHANGED <<calls, pending, sess_vars>>
        /\ RaceRest

RaceNext ==
    \/ SubmitSessionTask
    \/ TaskAppends
    \/ TaskSlices
    \/ TaskAssigns
    \/ TaskReturns

SpecRace == RaceInit /\ [][RaceNext]_vars

\* C35: under any interleaving of the background tasks of successive turns
\* no session append is lost: when an add_to_session_memory task is over, the
\* turn it appended is in the session buffer.
C35_NoSessionAppendLost ==
    last_call.kind = "session_task" => last_call.present

\* What does hold of C35: a task during which no other task ran leaves its
\* turn in the buffer.
C35_AppendKeptWithoutOverlap ==
    (last_call.kind = "session_task" /\ last_call.alone) => last_call.present

\* the append of the second turn ran between the slice and the assignment of
\* the first: the second task is over and its turn is not in the buffer
C35_AppendLost ==
    /\ last_call.kind = "session_task" /\ last_call.turn = 2
    /\ ~last_call.cut /\ ~last_call.present
    /\ prev_call.kind = "session_task" /\ prev_call.turn = 1 /\ prev_call.cut
    /\ Len(session_memory) = SessionCap

\* the case the claim names: the append of the second turn ran between the
\* append and the slice of the first, and the first turn is kept
C35_AppendBeforeSliceKept ==
    /\ last_call.kind = "session_task" /\ last_call.turn = 1
    /\ last_call.cut /\ ~last_call.alone /\ last_call.present
    /\ \E i \in 1..Len(session_memory) : session_memory[i].user_input = RaceScript[2]

=============================================================================
